---- MODULE Spec2Model ----
(***************************************************************************)
(* Model of the sonic-exporter background-refresh collectors (LLDP, VLAN,  *)
(* LAG, FDB, Docker, System): the cached snapshot guarded by a            *)
(* sync.RWMutex, the constructor's initial refresh, the ticker-driven      *)
(* refreshLoop, refreshMetrics and Collect; and of the VLAN / LAG          *)
(* extraction pipeline (scrapeMetrics) as a function of the scanned keys.  *)
(***************************************************************************)
EXTENDS Integers, Sequences, FiniteSets, TLC

(***************************************************************************)
(* Bounds of the model.                                                    *)
(***************************************************************************)
NumReaders == 2      \* concurrent Collect callers (CollectSpec)
MaxTime == 3         \* the clock runs 1..MaxTime
MaxCycles == 3       \* refresh cycles started per collector (Spec)
ScrapeCycles == 1    \* refresh cycles started by the loop (CollectSpec)
MaxData == 1         \* distinct producer outputs 0..MaxData
SourceCalls == 1     \* source-store calls (client, scan, fetch) per cycle
Timeout == 2         \* per-cycle deadline (VLAN_TIMEOUT default, seconds)

(***************************************************************************)
(* The six background-refresh collectors and their cache fields.           *)
(***************************************************************************)
Domains == {"lldp", "vlan", "lag", "fdb", "docker", "system"}

Writers == {"ctor", "loop"}

NoErr == "nil"

ErrUnavailable == "unavailable"

ErrDeadline == "deadline"

\* every field of a collector struct that is guarded by collector.mu
Fields ==
  {"cachedMetrics", "lastSuccess", "lastScrapeDuration", "lastSkippedEntries",
   "lastTruncated", "lastNeighbors", "lastEntriesSkipped", "lastContainerCount",
   "lastSourceUpdateTime", "lastSourceStale", "lastRefreshTime"}

\* the fields a successful cycle fills from the producer's result
DataFields ==
  {"cachedMetrics", "lastSkippedEntries", "lastTruncated", "lastNeighbors",
   "lastEntriesSkipped", "lastContainerCount", "lastSourceUpdateTime",
   "lastSourceStale"}

\* the assignments of refreshMetrics after the error check, in code order
CommitOrder(d) ==
  CASE d = "lldp" -> <<"cachedMetrics", "lastNeighbors", "lastSkippedEntries",
                       "lastSuccess", "lastRefreshTime">>
    [] d = "vlan" -> <<"cachedMetrics", "lastSkippedEntries", "lastSuccess",
                       "lastRefreshTime">>
    [] d = "lag" -> <<"cachedMetrics", "lastSkippedEntries", "lastSuccess",
                      "lastRefreshTime">>
    [] d = "fdb" -> <<"cachedMetrics", "lastSkippedEntries", "lastTruncated",
                      "lastSuccess", "lastRefreshTime">>
    [] d = "docker" -> <<"cachedMetrics", "lastEntriesSkipped",
                         "lastContainerCount", "lastSourceUpdateTime",
                         "lastSourceStale", "lastSuccess", "lastRefreshTime">>
    [] d = "system" -> <<"cachedMetrics", "lastSuccess", "lastRefreshTime">>

\* the fields Collect copies between RLock and RUnlock, in code order
ReadOrder(d) ==
  CASE d = "lldp" -> <<"cachedMetrics", "lastNeighbors", "lastSkippedEntries",
                       "lastScrapeDuration", "lastSuccess", "lastRefreshTime">>
    [] d = "vlan" -> <<"cachedMetrics", "lastSkippedEntries",
                       "lastScrapeDuration", "lastSuccess", "lastRefreshTime">>
    [] d = "lag" -> <<"cachedMetrics", "lastSkippedEntries",
                      "lastScrapeDuration", "lastSuccess", "lastRefreshTime">>
    [] d = "fdb" -> <<"cachedMetrics", "lastSkippedEntries", "lastTruncated",
                      "lastScrapeDuration", "lastSuccess", "lastRefreshTime">>
    [] d = "docker" -> <<"cachedMetrics", "lastScrapeDuration", "lastSuccess",
                         "lastRefreshTime", "lastSourceUpdateTime",
                         "lastSourceStale", "lastEntriesSkipped",
                         "lastContainerCount">>
    [] d = "system" -> <<"cachedMetrics", "lastScrapeDuration", "lastSuccess",
                         "lastRefreshTime">>

SeqRange(s) == {s[i] : i \in 1..Len(s)}

VARIABLES
  domain,       \* which collector this instance is
  now,          \* the wall clock
  cache,        \* the mutex-guarded fields of the collector
  mu,           \* collector.mu: [writer, pending, readers]
  pcW,          \* position of the constructor and of the refreshLoop goroutine
  wl,           \* locals of the refreshMetrics call of each writer
  tickPending,  \* a tick is buffered in ticker.C
  cyclesLeft,   \* refresh cycles the model still lets start
  committed,    \* refresh cycles that took the success branch so far
  pcR,          \* position of each Collect call
  rl,           \* locals of each Collect call
  scrape        \* locals of one scrapeMetrics call of the VLAN / LAG collector

vars == <<domain, now, cache, mu, pcW, wl, tickPending, cyclesLeft, committed, pcR, rl, scrape>>

Readers == DOMAIN pcR

(***************************************************************************)
(* collector.mu, a sync.RWMutex: one writer or any number of readers; a    *)
(* writer that has called Lock keeps new readers out until it is done.     *)
(***************************************************************************)
CanRLock(m) == m.writer = "none" /\ m.waiting = {}

\* Lock() does not wait for the readers
CanLock_IgnoresReaders(m) == m.writer = "none"

CanLock(m) == m.writer = "none" /\ m.readers = {}

ZeroCache == [f \in Fields |-> 0]

WriterIdle == [start |-> 0, deadline |-> 0, calls |-> 0, srcErr |-> NoErr,
               err |-> NoErr, out |-> 0, dur |-> 0, idx |-> 0, ctx |-> "none"]

ReaderIdle == [idx |-> 0, view |-> ZeroCache, age |-> 0, sent |-> FALSE]

\* the stages of one refreshMetrics call
RefreshStages == {"scrape", "return", "lockwait", "locked", "fail", "commit", "unlock"}

\* the stages in which refreshMetrics holds the write lock
LockedStages == {"locked", "fail", "commit", "unlock"}

InFlight == {w \in Writers : pcW[w] \in RefreshStages}

\* the refresh cycle is followed without the inside of its scrapeMetrics call
NoScrape == [pc |-> "none"]

Init ==
  /\ domain \in Domains
  /\ now = 1
  /\ cache = ZeroCache
  /\ mu = [writer |-> "none", waiting |-> {}, readers |-> {}]
  /\ pcW = [w \in Writers |-> IF w = "ctor" THEN "new" ELSE "off"]
  /\ wl = [w \in Writers |-> WriterIdle]
  /\ tickPending = FALSE
  /\ cyclesLeft = MaxCycles
  /\ committed = 0
  /\ pcR = <<>>
  /\ rl = <<>>
  /\ scrape = NoScrape

\* time.Now() / time.Since / the context's timer: the clock is read, and has
\* not gone backwards since it was last read
ClockRead(t) == t \in now..MaxTime /\ now' = t

\* the runtime timer sends on ticker.C (capacity 1); a tick that finds the
\* buffer full is dropped
TickerFire ==
  /\ pcW["loop"] # "off"
  /\ tickPending' = TRUE
  /\ UNCHANGED <<scrape, domain, now, cache, mu, pcW, wl, cyclesLeft, committed, pcR, rl>>

\* refreshMetrics entry: start := time.Now(); ctx := WithTimeout(timeout)
BeginRefresh(w) ==
  /\ cyclesLeft > 0
  /\ cyclesLeft' = cyclesLeft - 1
  /\ pcW' = [pcW EXCEPT ![w] = "scrape"]
  /\ \E t \in 1..MaxTime :
       /\ ClockRead(t)
       /\ wl' = [wl EXCEPT ![w] = [WriterIdle EXCEPT !.start = t,
                                                     !.deadline = t + Timeout,
                                                     !.ctx = "live"]]

\* the constructor calls refreshMetrics()
CtorRefresh ==
  /\ pcW["ctor"] = "new"
  /\ BeginRefresh("ctor")
  /\ UNCHANGED <<scrape, domain, cache, mu, tickPending, committed, pcR, rl>>

\* the loop is started although the initial refreshMetrics has not returned
SpawnReady_Early(p) == p # "done"

\* the constructor may start the loop once its own refreshMetrics has returned
SpawnReady(p) == p = "spawn"

\* go collector.refreshLoop(); return collector
CtorGo ==
  /\ SpawnReady(pcW["ctor"])
  /\ pcW["loop"] = "off"
  /\ pcW' = [pcW EXCEPT !["ctor"] = "done", !["loop"] = "wait"]
  /\ UNCHANGED <<scrape, domain, now, cache, mu, wl, tickPending, cyclesLeft, committed, pcR, rl>>

\* for range ticker.C { collector.refreshMetrics() }
LoopTick ==
  /\ pcW["loop"] = "wait"
  /\ tickPending
  /\ tickPending' = FALSE
  /\ BeginRefresh("loop")
  /\ UNCHANGED <<scrape, domain, cache, mu, committed, pcR, rl>>

\* the store's answer to a call made under ctx: after the deadline the call
\* fails fast; before it the store answers or is unavailable
SourceCallErr(expired, available) ==
  IF expired THEN ErrDeadline
  ELSE IF available THEN NoErr ELSE ErrUnavailable

\* every collector swallows the error of a source call
ScrapeErr_Swallow(d, e) == NoErr

\* what scrapeMetrics returns to refreshMetrics when a source call failed with
\* e: the System collector logs the failure and goes on to its next source,
\* every other collector returns the error at once
ScrapeErr(d, e) == IF d = "system" THEN NoErr ELSE e

\* one client creation, key scan or field fetch of scrapeMetrics
SourceCall(w) ==
  /\ pcW[w] = "scrape"
  /\ \E available \in BOOLEAN, t \in 1..MaxTime :
       LET e == SourceCallErr(t >= wl[w].deadline, available)
           r == ScrapeErr(domain, e)
           n == wl[w].calls + 1
       IN /\ ClockRead(t)
          /\ wl' = [wl EXCEPT ![w].calls = n,
                              ![w].srcErr = IF e # NoErr THEN e ELSE @,
                              ![w].err = r]
          /\ pcW' = [pcW EXCEPT ![w] = IF r # NoErr \/ n >= SourceCalls
                                       THEN "return" ELSE "scrape"]
  /\ UNCHANGED <<scrape, domain, cache, mu, tickPending, cyclesLeft, committed, pcR, rl>>

\* scrapeMetrics returns (its result built in memory from what was fetched);
\* scrapeDuration := time.Since(start); collector.mu.Lock() is called
ProducerReturn(w) ==
  /\ pcW[w] = "return"
  /\ \E v \in 0..MaxData, t \in 1..MaxTime :
       /\ ClockRead(t)
       /\ wl' = [wl EXCEPT ![w].out = IF wl[w].err = NoErr THEN v ELSE 0,
                           ![w].dur = t - wl[w].start]
  /\ mu' = [mu EXCEPT !.waiting = @ \cup {w}]
  /\ pcW' = [pcW EXCEPT ![w] = "lockwait"]
  /\ UNCHANGED <<scrape, domain, cache, tickPending, cyclesLeft, committed, pcR, rl>>

\* collector.mu.Lock() is taken before scrapeMetrics is called
LockAcquire_BeforeScrape(w) ==
  /\ pcW[w] \in {"scrape", "lockwait"}
  /\ CanLock(mu)
  /\ mu' = [mu EXCEPT !.writer = w, !.waiting = @ \ {w}]
  /\ pcW' = [pcW EXCEPT ![w] = IF pcW[w] = "lockwait" THEN "locked" ELSE @]
  /\ UNCHANGED <<scrape, domain, now, cache, wl, tickPending, cyclesLeft, committed, pcR, rl>>

\* collector.mu.Lock() returns
LockAcquire(w) ==
  /\ pcW[w] = "lockwait"
  /\ CanLock(mu)
  /\ mu' = [mu EXCEPT !.writer = w, !.waiting = @ \ {w}]
  /\ pcW' = [pcW EXCEPT ![w] = "locked"]
  /\ UNCHANGED <<scrape, domain, now, cache, wl, tickPending, cyclesLeft, committed, pcR, rl>>

\* collector.lastScrapeDuration = scrapeDuration; if err != nil
SetDuration(w) ==
  /\ pcW[w] = "locked"
  /\ cache' = [cache EXCEPT !["lastScrapeDuration"] = wl[w].dur]
  /\ pcW' = [pcW EXCEPT ![w] = IF wl[w].err # NoErr THEN "fail" ELSE "commit"]
  /\ wl' = [wl EXCEPT ![w].idx = 1]
  /\ UNCHANGED <<scrape, domain, now, mu, tickPending, cyclesLeft, committed, pcR, rl>>

\* the error branch also drops the cached records
OnRefreshError_ClearsRecords(c) ==
  [c EXCEPT !["lastSuccess"] = 0, !["cachedMetrics"] = 0]

\* the error branch also resets the time of the last refresh
OnRefreshError_ResetsTime(c) ==
  [c EXCEPT !["lastSuccess"] = 0, !["lastRefreshTime"] = 0]

\* the error branch: collector.lastSuccess = 0; log; return
OnRefreshError(c) == [c EXCEPT !["lastSuccess"] = 0]

FailAssign(w) ==
  /\ pcW[w] = "fail"
  /\ cache' = OnRefreshError(cache)
  /\ pcW' = [pcW EXCEPT ![w] = "unlock"]
  /\ UNCHANGED <<scrape, domain, now, mu, wl, tickPending, cyclesLeft, committed, pcR, rl>>

\* the success branch does not set lastSuccess to 1
CommitValue_NoSuccess(f, out, t) ==
  IF f = "lastRefreshTime" THEN t ELSE out

\* the value the success branch assigns to field f
CommitValue(f, out, t) ==
  CASE f = "lastSuccess" -> 1
    [] f = "lastRefreshTime" -> t
    [] OTHER -> out

\* one assignment of the success branch
CommitAssign(w) ==
  /\ pcW[w] = "commit"
  /\ LET order == CommitOrder(domain)
         i == wl[w].idx
         last == i = Len(order)
     IN /\ \E t \in 1..MaxTime :
             /\ IF order[i] = "lastRefreshTime" THEN ClockRead(t) ELSE t = now /\ now' = now
             /\ cache' = [cache EXCEPT ![order[i]] = CommitValue(order[i], wl[w].out, t)]
        /\ wl' = [wl EXCEPT ![w].idx = i + 1]
        /\ pcW' = [pcW EXCEPT ![w] = IF last THEN "unlock" ELSE "commit"]
        /\ committed' = IF last THEN committed + 1 ELSE committed
  /\ UNCHANGED <<scrape, domain, mu, tickPending, cyclesLeft, pcR, rl>>

\* the loop gives up after a failed cycle
AfterRefresh_StopOnError(w, e) ==
  IF w = "ctor" THEN "spawn" ELSE IF e # NoErr THEN "stopped" ELSE "wait"

\* where refreshMetrics returns to: the constructor goes on to start the
\* loop, the loop goes back to waiting on ticker.C
AfterRefresh(w, e) == IF w = "ctor" THEN "spawn" ELSE "wait"

\* deferred: collector.mu.Unlock(); cancel(); refreshMetrics returns
Unlock(w) ==
  /\ pcW[w] = "unlock"
  /\ mu' = [mu EXCEPT !.writer = "none"]
  /\ pcW' = [pcW EXCEPT ![w] = AfterRefresh(w, wl[w].err)]
  /\ wl' = [wl EXCEPT ![w] = [WriterIdle EXCEPT !.ctx = "cancelled"]]
  /\ UNCHANGED <<scrape, domain, now, cache, tickPending, cyclesLeft, committed, pcR, rl>>

(***************************************************************************)
(* The collector from the constructor's refreshMetrics() on: no Collect    *)
(* runs before the constructor has returned the collector.                 *)
(***************************************************************************)
Next ==
  \/ TickerFire
  \/ CtorRefresh
  \/ CtorGo
  \/ LoopTick
  \/ \E w \in Writers : SourceCall(w)
  \/ \E w \in Writers : ProducerReturn(w)
  \/ \E w \in Writers : LockAcquire(w)
  \/ \E w \in Writers : SetDuration(w)
  \/ \E w \in Writers : FailAssign(w)
  \/ \E w \in Writers : CommitAssign(w)
  \/ \E w \in Writers : Unlock(w)

Spec == Init /\ [][Next]_vars

(***************************************************************************)
(* Collect.  A collector is registered, and so scraped, only after its     *)
(* constructor has returned.                                               *)
(***************************************************************************)
\* collector.mu.RLock()
RLock(r) ==
  /\ pcR[r] = "idle"
  /\ \A q \in Readers : q < r => pcR[q] # "idle"
  /\ pcW["ctor"] = "done"
  /\ CanRLock(mu)
  /\ mu' = [mu EXCEPT !.readers = @ \cup {r}]
  /\ pcR' = [pcR EXCEPT ![r] = "reading"]
  /\ rl' = [rl EXCEPT ![r].idx = 1]
  /\ UNCHANGED <<scrape, domain, now, cache, pcW, wl, tickPending, cyclesLeft, committed>>

\* Collect takes the cached records out of the collector
AfterCopy_Drain(c, f) ==
  IF f = "cachedMetrics" THEN [c EXCEPT ![f] = 0] ELSE c

\* what one copy statement of Collect leaves in the collector's fields
AfterCopy(c, f) == c

\* one copy statement between RLock and RUnlock
ReadField(r) ==
  /\ pcR[r] = "reading"
  /\ LET order == ReadOrder(domain)
         i == rl[r].idx
     IN /\ rl' = [rl EXCEPT ![r].view[order[i]] = cache[order[i]],
                            ![r].idx = i + 1]
        /\ pcR' = [pcR EXCEPT ![r] = IF i = Len(order) THEN "copied" ELSE "reading"]
        /\ cache' = AfterCopy(cache, order[i])
  /\ UNCHANGED <<scrape, domain, now, mu, pcW, wl, tickPending, cyclesLeft, committed>>

\* the read lock is kept while the records are sent
RUnlock_KeepsLock(r) ==
  /\ pcR[r] = "copied"
  /\ pcR' = [pcR EXCEPT ![r] = "emit"]
  /\ UNCHANGED <<scrape, domain, now, cache, mu, pcW, wl, tickPending, cyclesLeft, committed, rl>>

\* collector.mu.RUnlock()
RUnlock(r) ==
  /\ pcR[r] = "copied"
  /\ mu' = [mu EXCEPT !.readers = @ \ {r}]
  /\ pcR' = [pcR EXCEPT ![r] = "emit"]
  /\ UNCHANGED <<scrape, domain, now, cache, pcW, wl, tickPending, cyclesLeft, committed, rl>>

\* the age is computed without the IsZero check
CacheAge_NoZeroCheck(lastRefreshTime, t) == t - lastRefreshTime

\* cacheAge := 0.0; if !lastRefreshTime.IsZero() { time.Since(lastRefreshTime) }
CacheAge(lastRefreshTime, t) ==
  IF lastRefreshTime = 0 THEN 0 ELSE t - lastRefreshTime

\* whether Collect sends its health gauges after the cached records
EmitsHealth(view) == TRUE

\* the cached records and the health gauges are sent on ch
Emit(r) ==
  /\ pcR[r] = "emit"
  /\ \E t \in 1..MaxTime :
       /\ ClockRead(t)
       /\ rl' = [rl EXCEPT ![r].age = CacheAge(rl[r].view["lastRefreshTime"], t),
                           ![r].sent = EmitsHealth(rl[r].view)]
  /\ pcR' = [pcR EXCEPT ![r] = "sent"]
  /\ UNCHANGED <<scrape, domain, cache, mu, pcW, wl, tickPending, cyclesLeft, committed>>

\* Collect returns
CollectReturn(r) ==
  /\ pcR[r] = "sent"
  /\ pcR' = [pcR EXCEPT ![r] = "idle"]
  /\ rl' = [rl EXCEPT ![r] = ReaderIdle]
  /\ UNCHANGED <<scrape, domain, now, cache, mu, pcW, wl, tickPending, cyclesLeft, committed>>

(***************************************************************************)
(* The collector as its constructor leaves it: the initial refreshMetrics  *)
(* has failed or committed, the loop has been started, nothing is locked.  *)
(* From there the loop refreshes while Collect calls run.                  *)
(***************************************************************************)
Constructed(d, ok, v, dur, t) ==
  [f \in Fields |->
     IF f = "lastScrapeDuration" THEN dur
     ELSE IF ~ok \/ f \notin SeqRange(CommitOrder(d)) THEN 0
     ELSE CommitValue(f, v, t)]

InitCollect ==
  /\ domain \in Domains
  /\ \E ok \in BOOLEAN, v \in 0..MaxData, s \in 1..MaxTime :
       \E r \in s..MaxTime : \E t \in r..MaxTime :
         /\ ok \/ domain # "system"
         /\ ok \/ (v = 0 /\ t = r)
         /\ now = t
         /\ cache = Constructed(domain, ok, v, r - s, t)
         /\ committed = IF ok THEN 1 ELSE 0
  /\ mu = [writer |-> "none", waiting |-> {}, readers |-> {}]
  /\ pcW = [w \in Writers |-> IF w = "ctor" THEN "done" ELSE "wait"]
  /\ wl = [w \in Writers |-> IF w = "ctor" THEN [WriterIdle EXCEPT !.ctx = "cancelled"]
                                           ELSE WriterIdle]
  /\ tickPending = FALSE
  /\ cyclesLeft = ScrapeCycles
  /\ pcR = [r \in 1..NumReaders |-> "idle"]
  /\ rl = [r \in 1..NumReaders |-> ReaderIdle]
  /\ scrape = NoScrape

NextCollect ==
  \/ TickerFire
  \/ LoopTick
  \/ SourceCall("loop")
  \/ ProducerReturn("loop")
  \/ LockAcquire("loop")
  \/ SetDuration("loop")
  \/ FailAssign("loop")
  \/ CommitAssign("loop")
  \/ Unlock("loop")
  \/ \E r \in Readers : RLock(r)
  \/ \E r \in Readers : ReadField(r)
  \/ \E r \in Readers : RUnlock(r)
  \/ \E r \in Readers : Emit(r)
  \/ \E r \in Readers : CollectReturn(r)

CollectSpec == InitCollect /\ [][NextCollect]_vars

(***************************************************************************)
(* scrapeMetrics of the VLAN and of the LAG collector.  A string is the    *)
(* sequence of its characters, each character a number in the order of its *)
(* byte: digits 0 1 2, ':' 3, the table words 4 5 6 ("VLAN", "VLAN_TABLE", *)
(* "VLAN_MEMBER" / "PORTCHANNEL", "LAG_TABLE", "LAG_MEMBER_TABLE"), the    *)
(* name word 7 ("Vlan", "PortChannel", "Ethernet"), '|' 8.                 *)
(***************************************************************************)
MaxCap == 2          \* VLAN_MAX_VLANS, VLAN_MAX_MEMBERS, ... range over 1..MaxCap

\* strings.HasPrefix
HasPrefix(str, prefix) ==
  Len(str) >= Len(prefix) /\ SubSeq(str, 1, Len(prefix)) = prefix

\* strings.TrimPrefix
TrimPrefix(str, prefix) ==
  IF HasPrefix(str, prefix) THEN SubSeq(str, Len(prefix) + 1, Len(str)) ELSE str

\* strings.SplitN(str, sep, 2)
SplitN(str, sep) ==
  IF \E i \in 1..Len(str) : str[i] = sep
  THEN LET i == CHOOSE i \in 1..Len(str) :
                  str[i] = sep /\ \A j \in 1..(i - 1) : str[j] # sep
       IN <<SubSeq(str, 1, i - 1), SubSeq(str, i + 1, Len(str))>>
  ELSE <<str>>

\* a < b on Go strings: byte-wise, a proper prefix is smaller
StringLess(a, b) ==
  \E i \in 1..Len(b) :
    /\ Len(a) >= i - 1
    /\ \A j \in 1..(i - 1) : a[j] = b[j]
    /\ (Len(a) = i - 1 \/ a[i] < b[i])

\* the keys of a map appended to a slice, then sort.Strings
RECURSIVE SortStrings(_)
SortStrings(set) ==
  IF set = {} THEN <<>>
  ELSE LET least == CHOOSE x \in set : \A y \in set \ {x} : StringLess(x, y)
       IN <<least>> \o SortStrings(set \ {least})

\* "VLAN|" and "PORTCHANNEL|"
ConfigPrefix(d) == <<4, 8>>

\* "VLAN_TABLE:" and "LAG_TABLE:"
ApplPrefix(d) == <<5, 3>>

\* "VLAN_MEMBER|" and "LAG_MEMBER_TABLE:"
MemberPrefix(d) == IF d = "vlan" THEN <<6, 8>> ELSE <<6, 3>>

\* the separator of parent and member in a member key: "|" and ":"
MemberSep(d) == IF d = "vlan" THEN 8 ELSE 3

\* keys a scan of the configuration namespace may return: Vlan1, Vlan2 and
\* the bare prefix
ConfigKeyPool(d) ==
  {ConfigPrefix(d) \o <<7, 1>>, ConfigPrefix(d) \o <<7, 2>>, ConfigPrefix(d)}

\* keys a scan of the state namespace may return: Vlan10, Vlan2 and a key
\* without the prefix
ApplKeyPool(d) ==
  {ApplPrefix(d) \o <<7, 1, 0>>, ApplPrefix(d) \o <<7, 2>>, <<7, 1>>}

\* keys a scan of the member namespace may return: Ethernet1 and Ethernet2
\* of Vlan1, Ethernet1 of Vlan2, and a key without a member part
MemberKeyPool(d) ==
  {MemberPrefix(d) \o <<7, 1>> \o <<MemberSep(d)>> \o <<7, 1>>,
   MemberPrefix(d) \o <<7, 1>> \o <<MemberSep(d)>> \o <<7, 2>>,
   MemberPrefix(d) \o <<7, 2>> \o <<MemberSep(d)>> \o <<7, 1>>,
   MemberPrefix(d) \o <<7, 1>>}

\* the values of the status fields are sequences of character codes: a small
\* letter is 97..122, a capital letter 65..90, the blank is the tab, 9
\* what the store holds in the hashes: nothing, or every field
StorePool == {"empty", "full"}

\* redisClient.HgetAllFromDb: the fields of a hash (a field that is not set
\* reads as "")
HgetAllFromDb(store, db) ==
  IF store = "empty"
  THEN [vlanid |-> <<>>, admin_status |-> <<>>, oper_status |-> <<>>,
        tagging_mode |-> <<>>, status |-> <<>>]
  ELSE IF db = "CONFIG_DB"
  THEN \* admin_status "down", tagging_mode "tagged"
       [vlanid |-> <<1, 0>>, admin_status |-> <<100, 111, 119, 110>>,
        oper_status |-> <<>>,
        tagging_mode |-> <<116, 97, 103, 103, 101, 100>>, status |-> <<>>]
  ELSE \* admin_status "UP" and a blank, oper_status "down", status "enabled"
       [vlanid |-> <<>>, admin_status |-> <<85, 80, 9>>,
        oper_status |-> <<100, 111, 119, 110>>,
        tagging_mode |-> <<>>, status |-> <<101, 110, 97, 98, 108, 101, 100>>]

\* strings.TrimSpace of a sequence of characters
RECURSIVE TrimSpace(_)
TrimSpace(str) ==
  IF str = <<>> THEN str
  ELSE IF Head(str) = 9 THEN TrimSpace(Tail(str))
  ELSE IF str[Len(str)] = 9 THEN TrimSpace(SubSeq(str, 1, Len(str) - 1))
  ELSE str

\* capital letters are left as they are
ToLower_Identity(str) == str

\* strings.ToLower of a sequence of characters: a capital letter becomes the
\* small letter, every other character stays
ToLower(str) ==
  [i \in 1..Len(str) |-> IF str[i] \in 65..90 THEN str[i] + 32 ELSE str[i]]

\* the values that give 1: up, enabled, selected, active, true, ok
statusToGauge(status) ==
  LET value == ToLower(TrimSpace(status))
  IN IF \/ value = <<117, 112>>
        \/ value = <<101, 110, 97, 98, 108, 101, 100>>
        \/ value = <<115, 101, 108, 101, 99, 116, 101, 100>>
        \/ value = <<97, 99, 116, 105, 118, 101>>
        \/ value = <<116, 114, 117, 101>>
        \/ value = <<111, 107>>
     THEN 1 ELSE 0

\* firstNonEmpty of two values
firstNonEmpty(a, b) ==
  IF TrimSpace(a) # <<>> THEN a ELSE IF TrimSpace(b) # <<>> THEN b ELSE <<>>

\* the collector's other variables while one scrapeMetrics call is followed
CollectorAtRest ==
  /\ now = 1
  /\ cache = ZeroCache
  /\ mu = [writer |-> "none", waiting |-> {}, readers |-> {}]
  /\ pcW = [w \in Writers |-> IF w = "ctor" THEN "scrape" ELSE "off"]
  /\ wl = [w \in Writers |-> WriterIdle]
  /\ tickPending = FALSE
  /\ cyclesLeft = 0
  /\ committed = 0
  /\ pcR = <<>>
  /\ rl = <<>>

\* scrapeMetrics is entered: the store holds some keys, the caps are set
InitPipeline ==
  /\ domain \in {"vlan", "lag"}
  /\ CollectorAtRest
  /\ \E store \in StorePool,
        dbConfig \in SUBSET ConfigKeyPool(domain),
        dbAppl \in SUBSET ApplKeyPool(domain),
        dbMember \in SUBSET MemberKeyPool(domain),
        maxParents \in 1..MaxCap, maxMembers \in 1..MaxCap :
       scrape = [pc |-> "scan", store |-> store, dbConfig |-> dbConfig,
                 dbAppl |-> dbAppl, dbMember |-> dbMember,
                 maxParents |-> maxParents, maxMembers |-> maxMembers,
                 configKeys |-> {}, applKeys |-> {}, memberKeys |-> {},
                 names |-> <<>>, membersBy |-> <<>>, idx |-> 0,
                 skippedEntries |-> 0, metrics |-> <<>>,
                 processedParents |-> 0, processedMembers |-> 0,
                 fetched |-> {}, err |-> NoErr]

collectorVars == <<domain, now, cache, mu, pcW, wl, tickPending, cyclesLeft, committed, pcR, rl>>

\* redis.NewClient and the three ScanKeysFromDb calls
ScanKeys ==
  /\ scrape.pc = "scan"
  /\ scrape' = [scrape EXCEPT !.pc = "names",
                              !.configKeys = scrape.dbConfig,
                              !.applKeys = scrape.dbAppl,
                              !.memberKeys = scrape.dbMember]
  /\ UNCHANGED collectorVars

\* whether a key stripped of its prefix is rejected
BadName(name, key) == name = <<>> \/ name = key

\* the two loops over the scanned parent keys, and the sort of the names
CollectNames ==
  /\ scrape.pc = "names"
  /\ LET badCfg == {k \in scrape.configKeys :
                      BadName(TrimPrefix(k, ConfigPrefix(domain)), k)}
         badAppl == {k \in scrape.applKeys :
                       BadName(TrimPrefix(k, ApplPrefix(domain)), k)}
         parents ==
           {TrimPrefix(k, ConfigPrefix(domain)) : k \in scrape.configKeys \ badCfg}
             \cup {TrimPrefix(k, ApplPrefix(domain)) : k \in scrape.applKeys \ badAppl}
     IN scrape' = [scrape EXCEPT !.pc = "members",
                                 !.skippedEntries = @ + Cardinality(badCfg)
                                                      + Cardinality(badAppl),
                                 !.names = SortStrings(parents)]
  /\ UNCHANGED collectorVars

\* the database the member hashes are read from
MemberDb(d) == IF d = "vlan" THEN "CONFIG_DB" ELSE "APPL_DB"

\* whether a member key is skipped: no prefix, nothing after it, or not
\* exactly a parent and a member part
BadMemberKey(d, key) ==
  LET memberPath == TrimPrefix(key, MemberPrefix(d))
      parts == SplitN(memberPath, MemberSep(d))
  IN \/ BadName(memberPath, key)
     \/ Len(parts) # 2
     \/ parts[1] = <<>>
     \/ parts[2] = <<>>

\* vlanMemberEntry / lagMemberEntry of a member key
MemberEntry(d, store, key) ==
  LET parts == SplitN(TrimPrefix(key, MemberPrefix(d)), MemberSep(d))
      memberData == HgetAllFromDb(store, MemberDb(d))
  IN [parent |-> parts[1],
      name |-> parts[2],
      data |-> IF d = "vlan" THEN firstNonEmpty(memberData.tagging_mode,
                                  <<117, 110, 107, 110, 111, 119, 110>>)
               ELSE memberData.status]

\* the loop over the scanned member keys: each key that is not skipped is
\* fetched and appended to the members of its parent
GroupMembers ==
  /\ scrape.pc = "members"
  /\ LET bad == {k \in scrape.memberKeys : BadMemberKey(domain, k)}
         good == scrape.memberKeys \ bad
         entries == {MemberEntry(domain, scrape.store, k) : k \in good}
         owners == {e.parent : e \in entries}
     IN scrape' = [scrape EXCEPT
                     !.pc = "walk",
                     !.idx = 1,
                     !.skippedEntries = @ + Cardinality(bad),
                     !.fetched = @ \cup {<<MemberDb(domain), k>> : k \in good},
                     !.membersBy = [o \in owners |-> {e \in entries : e.parent = o}]]
  /\ UNCHANGED collectorVars

\* the members are sorted from the largest name down
SortMembers_Descending(entries) ==
  LET sorted == SortStrings({e.name : e \in entries})
  IN [i \in 1..Len(sorted) |->
        CHOOSE e \in entries : e.name = sorted[Len(sorted) + 1 - i]]

\* members := membersByVlan[vlanName], sorted by name
SortMembers(entries) ==
  LET sorted == SortStrings({e.name : e \in entries})
  IN [i \in 1..Len(sorted) |-> CHOOSE e \in entries : e.name = sorted[i]]

\* the parent cap is applied one parent too late
OverParentCap_OffByOne(processed, max) == processed > max

\* if processedVlans >= collector.config.maxVlans
OverParentCap(processed, max) == processed >= max

\* the member cap lets one member too many through
OverMemberCap_OffByOne(processed, max) == processed > max

\* if processedMembers >= collector.config.maxMembers
OverMemberCap(processed, max) == processed >= max

\* the member record of one member
MemberMetric(d, name, member) ==
  [desc |-> IF d = "vlan" THEN "member_info" ELSE "member_status",
   parent |-> name, member |-> member.name, id |-> <<>>,
   value |-> IF d = "vlan" THEN 1 ELSE statusToGauge(member.data),
   label |-> IF d = "vlan" THEN member.data ELSE <<>>]

\* the loop over the sorted members of one parent; st holds the metrics, the
\* skipped count, processedMembers and memberCount
RECURSIVE MemberLoop(_, _, _, _, _)
MemberLoop(d, name, members, max, st) ==
  IF members = <<>> THEN st
  ELSE IF OverMemberCap(st.processedMembers, max)
  THEN MemberLoop(d, name, Tail(members), max,
                  [st EXCEPT !.skippedEntries = @ + 1])
  ELSE MemberLoop(d, name, Tail(members), max,
                  [st EXCEPT !.metrics = Append(@, MemberMetric(d, name, Head(members))),
                             !.processedMembers = @ + 1,
                             !.memberCount = @ + 1])

\* the records of one parent before its members: identity, admin status, oper
\* status
ParentMetrics(d, name, configData, applData) ==
  LET vlanID == IF configData.vlanid # <<>> THEN configData.vlanid
                ELSE TrimPrefix(name, <<7>>)
      adminStatus == firstNonEmpty(applData.admin_status, configData.admin_status)
      operStatus == applData.oper_status
      plain == [desc |-> "info", parent |-> name, member |-> <<>>, id |-> <<>>,
                value |-> 1, label |-> <<>>]
  IN <<IF d = "vlan" THEN [plain EXCEPT !.id = vlanID] ELSE plain>>
       \o (IF adminStatus # <<>>
           THEN <<[plain EXCEPT !.desc = "admin_status",
                                !.value = statusToGauge(adminStatus)]>>
           ELSE <<>>)
       \o (IF operStatus # <<>>
           THEN <<[plain EXCEPT !.desc = "oper_status",
                                !.value = statusToGauge(operStatus)]>>
           ELSE <<>>)

\* the members gauge holds the number of members scanned for the parent
MembersValue_Scanned(memberCount, members) == Len(members)

\* float64(memberCount): the value of the members record of a parent whose
\* slice of members is members
MembersValue(memberCount, members) == memberCount

\* one iteration of the loop over the sorted parent names
WalkParent ==
  /\ scrape.pc = "walk"
  /\ scrape.idx <= Len(scrape.names)
  /\ LET name == scrape.names[scrape.idx]
         configData == HgetAllFromDb(scrape.store, "CONFIG_DB")
         applData == HgetAllFromDb(scrape.store, "APPL_DB")
         members == IF name \in DOMAIN scrape.membersBy
                    THEN SortMembers(scrape.membersBy[name]) ELSE <<>>
         st == MemberLoop(domain, name, members, scrape.maxMembers,
                 [metrics |-> scrape.metrics
                                \o ParentMetrics(domain, name, configData, applData),
                  skippedEntries |-> scrape.skippedEntries,
                  processedMembers |-> scrape.processedMembers,
                  memberCount |-> 0])
     IN IF OverParentCap(scrape.processedParents, scrape.maxParents)
        THEN scrape' = [scrape EXCEPT !.skippedEntries = @ + 1, !.idx = @ + 1]
        ELSE scrape' = [scrape EXCEPT
               !.fetched = @ \cup {<<"CONFIG_DB", ConfigPrefix(domain) \o name>>,
                                   <<"APPL_DB", ApplPrefix(domain) \o name>>},
               !.metrics = Append(st.metrics,
                                  [desc |-> "members", parent |-> name,
                                   member |-> <<>>, id |-> <<>>,
                                   value |-> MembersValue(st.memberCount, members),
                                   label |-> <<>>]),
               !.skippedEntries = st.skippedEntries,
               !.processedMembers = st.processedMembers,
               !.processedParents = @ + 1,
               !.idx = @ + 1]
  /\ UNCHANGED collectorVars

\* return metrics, skippedEntries, nil
ScrapeReturn ==
  /\ scrape.pc = "walk"
  /\ scrape.idx > Len(scrape.names)
  /\ scrape' = [scrape EXCEPT !.pc = "done"]
  /\ UNCHANGED collectorVars

\* a client creation, scan or fetch fails: return nil, 0, err
ScrapeFail ==
  /\ \/ scrape.pc = "scan"
     \/ /\ scrape.pc = "members"
        /\ \E k \in scrape.memberKeys : ~BadMemberKey(domain, k)
     \/ /\ scrape.pc = "walk"
        /\ scrape.idx <= Len(scrape.names)
        /\ ~OverParentCap(scrape.processedParents, scrape.maxParents)
  /\ scrape' = [scrape EXCEPT !.pc = "failed", !.metrics = <<>>,
                              !.skippedEntries = 0, !.err = ErrUnavailable]
  /\ UNCHANGED collectorVars

NextPipeline ==
  \/ ScanKeys
  \/ CollectNames
  \/ GroupMembers
  \/ WalkParent
  \/ ScrapeReturn
  \/ ScrapeFail

PipelineSpec == InitPipeline /\ [][NextPipeline]_vars

(***************************************************************************)
(* scrapeMetrics of the LLDP collector.  Characters as above, with 4 the   *)
(* table word "LLDP_ENTRY_TABLE", 7 the word "Ethernet" and 9 the word     *)
(* "eth" (a lower-case letter sorts after every upper-case one).           *)
(***************************************************************************)

\* "LLDP_ENTRY_TABLE:"
LldpPrefix == <<4, 3>>

\* "eth0"
MgmtInterface == <<9, 0>>

\* keys a scan of LLDP_ENTRY_TABLE may return with a local interface:
\* Ethernet1, Ethernet2, eth0
LldpKeyPool == {LldpPrefix \o <<7, 1>>, LldpPrefix \o <<7, 2>>, LldpPrefix \o MgmtInterface}

\* keys without a local interface: the bare prefix, and a key without it
LldpBadKeyPool == {LldpPrefix, <<7, 1>>}

\* what the hash of an entry may hold: no field, only the port-id subtype,
\* only a chassis id, or every field
LldpHashPool == {"none", "subtype", "chassis", "full"}

\* the hash of an entry as a function of its fields, each value a sequence
\* of character codes: the subtype "7" or "Local " with a blank (9) behind
\* it, the system name "s1", the port id "E1", the port description "up",
\* the chassis id "aa", the management address "1"
LldpHash(kind) ==
  CASE kind = "none" -> <<>>
    [] kind = "subtype" -> [lldp_rem_port_id_subtype |-> <<55>>]
    [] kind = "chassis" -> [lldp_rem_chassis_id |-> <<97, 97>>]
    [] OTHER -> [lldp_rem_sys_name |-> <<115, 49>>, lldp_rem_port_id |-> <<69, 49>>,
                 lldp_rem_port_desc |-> <<117, 112>>,
                 lldp_rem_port_id_subtype |-> <<76, 111, 99, 97, 108, 9>>,
                 lldp_rem_chassis_id |-> <<97, 97>>, lldp_rem_man_addr |-> <<49>>]

\* lldpData[field]: a field that is not set reads as ""
HashField(hash, field) == IF field \in DOMAIN hash THEN hash[field] ELSE <<>>

\* the port id wins whenever there is one
resolvedRemotePortDisplay_IdFirst(remotePortID, remotePortDesc, remotePortIDSubtype) ==
  IF remotePortID # <<>> THEN remotePortID ELSE remotePortDesc

\* resolvedRemotePortDisplay: the subtypes 7, local, 3 and mac show the port
\* description
resolvedRemotePortDisplay(remotePortID, remotePortDesc, remotePortIDSubtype) ==
  LET subtype == ToLower(TrimSpace(remotePortIDSubtype))
  IN IF /\ remotePortDesc # <<>>
        /\ \/ subtype = <<55>>
           \/ subtype = <<108, 111, 99, 97, 108>>
           \/ subtype = <<51>>
           \/ subtype = <<109, 97, 99>>
     THEN remotePortDesc
     ELSE IF remotePortID # <<>> THEN remotePortID
     ELSE remotePortDesc

\* scrapeMetrics is entered: the store holds some entries, the configuration
\* is loaded
InitLldp ==
  /\ domain = "lldp"
  /\ CollectorAtRest
  /\ \E present \in SUBSET LldpKeyPool, bad \in SUBSET LldpBadKeyPool,
        includeMgmt \in BOOLEAN, maxNeighbors \in 1..MaxCap :
       \E hashes \in [present -> LldpHashPool] :
         scrape = [pc |-> "scan", db |-> hashes, dbBad |-> bad,
                   includeMgmt |-> includeMgmt, maxNeighbors |-> maxNeighbors,
                   keys |-> <<>>, idx |-> 0, metrics |-> <<>>,
                   neighbors |-> 0, skippedEntries |-> 0,
                   fetched |-> {}, err |-> NoErr]

\* redis.NewClient, ScanKeysFromDb and sort.Strings(lldpKeys)
LldpScanKeys ==
  /\ domain = "lldp"
  /\ scrape.pc = "scan"
  /\ scrape' = [scrape EXCEPT !.pc = "walk", !.idx = 1,
                              !.keys = SortStrings(DOMAIN scrape.db \cup scrape.dbBad)]
  /\ UNCHANGED collectorVars

\* if neighbors >= collector.config.maxNeighbors
OverNeighborCap(neighbors, max) == neighbors >= max

\* the management interface is never left out
MgmtExcluded_Never(includeMgmt, localInterface) == FALSE

\* if !collector.config.includeMgmt && localInterface == "eth0"
MgmtExcluded(includeMgmt, localInterface) ==
  ~includeMgmt /\ localInterface = MgmtInterface

\* every key of the loop is fetched
LldpFetches_Always(key) == TRUE

\* whether the loop body reaches HgetAllFromDb for the key
LldpFetches(key) ==
  /\ ~OverNeighborCap(scrape.neighbors, scrape.maxNeighbors)
  /\ ~BadName(TrimPrefix(key, LldpPrefix), key)
  /\ ~MgmtExcluded(scrape.includeMgmt, TrimPrefix(key, LldpPrefix))

\* the neighbor_info record of an entry
NeighborMetric(localInterface, lldpData) ==
  [desc |-> "neighbor_info",
   local_interface |-> localInterface,
   local_role |-> IF localInterface = MgmtInterface THEN "management"
                  ELSE IF ~HasPrefix(localInterface, <<7>>) THEN "other"
                  ELSE "frontpanel",
   remote_system_name |-> HashField(lldpData, "lldp_rem_sys_name"),
   remote_port_id |-> HashField(lldpData, "lldp_rem_port_id"),
   remote_port_desc |-> HashField(lldpData, "lldp_rem_port_desc"),
   remote_port_id_subtype |-> HashField(lldpData, "lldp_rem_port_id_subtype"),
   remote_port_display |->
     resolvedRemotePortDisplay(HashField(lldpData, "lldp_rem_port_id"),
                               HashField(lldpData, "lldp_rem_port_desc"),
                               HashField(lldpData, "lldp_rem_port_id_subtype")),
   remote_chassis_id |-> HashField(lldpData, "lldp_rem_chassis_id"),
   remote_mgmt_ip |-> HashField(lldpData, "lldp_rem_man_addr")]

\* whether none of the five remote fields of the hash is set
NoRemoteField(lldpData) ==
  \A f \in {"lldp_rem_sys_name", "lldp_rem_port_id", "lldp_rem_port_desc",
            "lldp_rem_chassis_id", "lldp_rem_man_addr"} :
    HashField(lldpData, f) = <<>>

\* one iteration of the loop over the sorted keys
LldpWalkKey ==
  /\ domain = "lldp"
  /\ scrape.pc = "walk"
  /\ scrape.idx <= Len(scrape.keys)
  /\ LET lldpKey == scrape.keys[scrape.idx]
         localInterface == TrimPrefix(lldpKey, LldpPrefix)
         lldpData == LldpHash(scrape.db[lldpKey])
         skip == [scrape EXCEPT !.skippedEntries = @ + 1, !.idx = @ + 1]
         read == [scrape EXCEPT !.fetched = @ \cup {lldpKey}, !.idx = @ + 1]
     IN scrape' =
          IF OverNeighborCap(scrape.neighbors, scrape.maxNeighbors) THEN skip
          ELSE IF BadName(localInterface, lldpKey) THEN skip
          ELSE IF MgmtExcluded(scrape.includeMgmt, localInterface)
          THEN [scrape EXCEPT !.idx = @ + 1]
          ELSE IF DOMAIN lldpData = {}
          THEN [read EXCEPT !.skippedEntries = @ + 1]
          ELSE IF NoRemoteField(lldpData)
          THEN [read EXCEPT !.skippedEntries = @ + 1]
          ELSE [read EXCEPT !.metrics = Append(@, NeighborMetric(localInterface, lldpData)),
                            !.neighbors = @ + 1]
  /\ UNCHANGED collectorVars

\* return metrics, neighbors, skippedEntries, nil
LldpScrapeReturn ==
  /\ domain = "lldp"
  /\ scrape.pc = "walk"
  /\ scrape.idx > Len(scrape.keys)
  /\ scrape' = [scrape EXCEPT !.pc = "done"]
  /\ UNCHANGED collectorVars

\* the client creation, the scan or the fetch of an entry fails:
\* return nil, 0, 0, err
LldpScrapeFail ==
  /\ domain = "lldp"
  /\ \/ scrape.pc = "scan"
     \/ /\ scrape.pc = "walk"
        /\ scrape.idx <= Len(scrape.keys)
        /\ LldpFetches(scrape.keys[scrape.idx])
  /\ scrape' = [scrape EXCEPT !.pc = "failed", !.metrics = <<>>, !.neighbors = 0,
                              !.skippedEntries = 0, !.err = ErrUnavailable]
  /\ UNCHANGED collectorVars

NextLldp ==
  \/ LldpScanKeys
  \/ LldpWalkKey
  \/ LldpScrapeReturn
  \/ LldpScrapeFail

LldpSpec == InitLldp /\ [][NextLldp]_vars

(***************************************************************************)
(* scrapeMetrics of the Docker collector.  Characters as above, with 4 the *)
(* table word "DOCKER_STATS", 5 the word "LastUpdateTime", 7 the name of a *)
(* container and 9 a blank.                                                *)
(***************************************************************************)

\* "DOCKER_STATS|LastUpdateTime"
LastUpdateKey == <<4, 8, 5>>

\* the container keys a scan of DOCKER_STATS may return
DockerKeyPool == {<<4, 8, 7, 0>>, <<4, 8, 7, 1>>, <<4, 8, 7, 2>>}

\* what the hash of a container may hold: no field, fields with a blank NAME,
\* a NAME with some of the figures missing or unreadable, a NAME and every
\* figure
DockerHashPool == {"none", "noname", "partial", "full"}

\* what the LastUpdateTime hash may hold: it does not exist, it has no
\* lastupdate field, one that is no timestamp, an old one, a recent one
LastUpdatePool == {"absent", "nofield", "garbled", "old", "fresh"}

\* the figures of a container, in the order scrapeMetrics reads them
DockerFigures ==
  <<"CPU%", "MEM_BYTES", "MEM_LIMIT_BYTES", "MEM%", "NET_IN_BYTES",
    "NET_OUT_BYTES", "BLOCK_IN_BYTES", "BLOCK_OUT_BYTES", "PIDS">>

\* the hash of a container key as a function of its fields; the NAME is a
\* sequence of characters, the figures are strings
DockerHash(key, kind) ==
  CASE kind = "none" -> <<>>
    [] kind = "noname" -> [f \in {"NAME", "CPU%"} |-> IF f = "NAME" THEN <<9>> ELSE "1.5"]
    [] kind = "partial" ->
         [f \in {"NAME", "CPU%", "MEM%", "PIDS"} |->
            CASE f = "NAME" -> <<9>> \o SubSeq(key, 3, Len(key)) \o <<9>>
              [] f = "CPU%" -> " 0.5 "
              [] f = "MEM%" -> "n/a"
              [] OTHER -> ""]
    [] OTHER ->
         [f \in {"NAME"} \cup SeqRange(DockerFigures) |->
            IF f = "NAME" THEN SubSeq(key, 3, Len(key)) ELSE "1.5"]

\* strconv.ParseFloat(strings.TrimSpace(raw), 64) on the figures the store
\* holds, in tenths; ok is false for a string that is no number
ParseFloat(raw) ==
  CASE raw = "1.5" -> [value |-> 15, ok |-> TRUE]
    [] raw = " 0.5 " -> [value |-> 5, ok |-> TRUE]
    [] OTHER -> [value |-> 0, ok |-> FALSE]

parseDockerFloat(fields, key) ==
  IF key \notin DOMAIN fields \/ fields[key] = ""
  THEN [value |-> 0, ok |-> FALSE]
  ELSE ParseFloat(fields[key])

\* readLastUpdateTime: the source update time (0 the zero time) and the
\* stale flag
readLastUpdateTime(kind) ==
  CASE kind \in {"absent", "nofield"} -> [sourceUpdateTime |-> 0, sourceStale |-> 1]
    [] kind = "garbled" -> [sourceUpdateTime |-> 0, sourceStale |-> 1]
    [] kind = "old" -> [sourceUpdateTime |-> 1, sourceStale |-> 1]
    [] OTHER -> [sourceUpdateTime |-> 1, sourceStale |-> 0]

\* scrapeMetrics is entered: the store holds some containers, the
\* configuration is loaded
InitDocker ==
  /\ domain = "docker"
  /\ CollectorAtRest
  /\ \E present \in SUBSET DockerKeyPool, lastUpdate \in LastUpdatePool,
        maxContainers \in 1..MaxCap :
       \E hashes \in [present -> DockerHashPool] :
         scrape = [pc |-> "start", db |-> hashes, lastUpdate |-> lastUpdate,
                   maxContainers |-> maxContainers,
                   keys |-> <<>>, idx |-> 0, metrics |-> <<>>,
                   skippedEntries |-> 0, containerCount |-> 0,
                   sourceUpdateTime |-> 0, sourceStale |-> 1,
                   fetched |-> {}, err |-> NoErr]

\* redis.NewClient and readLastUpdateTime
DockerReadLastUpdate ==
  /\ domain = "docker"
  /\ scrape.pc = "start"
  /\ LET r == readLastUpdateTime(scrape.lastUpdate)
     IN scrape' = [scrape EXCEPT !.pc = "scan",
                                 !.sourceUpdateTime = r.sourceUpdateTime,
                                 !.sourceStale = r.sourceStale]
  /\ UNCHANGED collectorVars

\* ScanKeysFromDb and sort.Strings(dockerKeys); the LastUpdateTime hash is
\* one of the keys when it exists
DockerScanKeys ==
  /\ domain = "docker"
  /\ scrape.pc = "scan"
  /\ scrape' = [scrape EXCEPT
                  !.pc = "walk", !.idx = 1,
                  !.keys = SortStrings(DOMAIN scrape.db
                             \cup (IF scrape.lastUpdate = "absent" THEN {}
                                   ELSE {LastUpdateKey}))]
  /\ UNCHANGED collectorVars

\* the container cap is never reached
OverContainerCap_Never(containerCount, max) == FALSE

\* if containerCount >= collector.config.maxContainers
OverContainerCap(containerCount, max) == containerCount >= max

\* the records of the figures of a container that parse, and the number of
\* those that do not
RECURSIVE FigureLoop(_, _, _, _)
FigureLoop(containerStats, containerName, figures, st) ==
  IF figures = <<>> THEN st
  ELSE LET parsed == parseDockerFloat(containerStats, Head(figures))
       IN FigureLoop(containerStats, containerName, Tail(figures),
            IF parsed.ok
            THEN [st EXCEPT !.metrics =
                    Append(@, [desc |-> Head(figures), container |-> containerName,
                               value |-> parsed.value])]
            ELSE [st EXCEPT !.skippedEntries = @ + 1])

\* one iteration of the loop over the sorted keys
DockerWalkKey ==
  /\ domain = "docker"
  /\ scrape.pc = "walk"
  /\ scrape.idx <= Len(scrape.keys)
  /\ LET dockerKey == scrape.keys[scrape.idx]
         containerStats == DockerHash(dockerKey, scrape.db[dockerKey])
         containerName == TrimSpace(containerStats["NAME"])
         skip == [scrape EXCEPT !.skippedEntries = @ + 1, !.idx = @ + 1]
         read == [scrape EXCEPT !.fetched = @ \cup {dockerKey}, !.idx = @ + 1]
         st == FigureLoop(containerStats, containerName, DockerFigures,
                 [metrics |-> Append(scrape.metrics,
                                     [desc |-> "container_info",
                                      container |-> containerName, value |-> 10]),
                  skippedEntries |-> scrape.skippedEntries])
     IN scrape' =
          IF dockerKey = LastUpdateKey THEN [scrape EXCEPT !.idx = @ + 1]
          ELSE IF OverContainerCap(scrape.containerCount, scrape.maxContainers)
          THEN skip
          ELSE IF DOMAIN containerStats = {}
          THEN [read EXCEPT !.skippedEntries = @ + 1]
          ELSE IF containerName = <<>>
          THEN [read EXCEPT !.skippedEntries = @ + 1]
          ELSE [read EXCEPT !.metrics = st.metrics,
                            !.skippedEntries = st.skippedEntries,
                            !.containerCount = @ + 1]
  /\ UNCHANGED collectorVars

\* return metrics, skippedEntries, containerCount, sourceUpdateTime,
\* sourceStale, nil
DockerScrapeReturn ==
  /\ domain = "docker"
  /\ scrape.pc = "walk"
  /\ scrape.idx > Len(scrape.keys)
  /\ scrape' = [scrape EXCEPT !.pc = "done"]
  /\ UNCHANGED collectorVars

\* the client creation or readLastUpdateTime fails (zero time, stale 1); or
\* the scan or the fetch of a container fails (time and stale flag as read)
DockerScrapeFail ==
  /\ domain = "docker"
  /\ \/ scrape.pc \in {"start", "scan"}
     \/ /\ scrape.pc = "walk"
        /\ scrape.idx <= Len(scrape.keys)
        /\ scrape.keys[scrape.idx] # LastUpdateKey
        /\ ~OverContainerCap(scrape.containerCount, scrape.maxContainers)
  /\ scrape' = [scrape EXCEPT !.pc = "failed", !.metrics = <<>>,
                              !.skippedEntries = 0, !.containerCount = 0,
                              !.err = ErrUnavailable]
  /\ UNCHANGED collectorVars

NextDocker ==
  \/ DockerReadLastUpdate
  \/ DockerScanKeys
  \/ DockerWalkKey
  \/ DockerScrapeReturn
  \/ DockerScrapeFail

DockerSpec == InitDocker /\ [][NextDocker]_vars

(***************************************************************************)
(* scrapeMetrics of the FDB collector.  Characters in the order of their   *)
(* bytes where strings are compared: digits 0 1 2, ':' 3, the three table  *)
(* prefixes without their ':' 4 5 6, then the words "Ethernet" 10,         *)
(* "PortChannel" 11, "dynamic" 12, "oid:0x" 13, "static" 14, "unknown" 15. *)
(* In a key's payload 8 separates the vlan, bvid and mac members of the    *)
(* JSON object and 9 is a blank.                                           *)
(***************************************************************************)

\* asciiFDBEntryPrefix
FdbPrefix == <<4, 3>>

\* asciiVLANObjectPrefix
VlanObjectPrefix == <<5, 3>>

\* asciiBridgePortPrefix
BridgePortPrefix == <<6, 3>>

\* the label of what cannot be resolved
Unknown == <<15>>

\* FDB entry keys with a payload that decodes and has a MAC: vlan "10" with
\* bvid oid:0x1; no vlan with bvid oid:0x1; a blank vlan with bvid oid:0x2
FdbEntryPool ==
  {FdbPrefix \o <<1, 0, 8, 13, 1, 8, 0, 1>>,
   FdbPrefix \o <<8, 13, 1, 8, 0, 2>>,
   FdbPrefix \o <<9, 8, 13, 2, 8, 0, 0>>}

\* FDB entry keys that parseFDBKey rejects: the bare prefix, a payload that
\* is no JSON object, a payload without a MAC
FdbBadKeyPool ==
  {FdbPrefix, FdbPrefix \o <<13, 1>>, FdbPrefix \o <<1, 0, 8, 13, 1, 8>>}

\* what the hash of an FDB entry may hold: no field, or its attributes
FdbHashPool == {"none", "attrs"}

\* the hash of an FDB entry: a dynamic entry on bridge port oid:0x5, a
\* static one on bridge port oid:0x6, one without type and bridge port
FdbHash(key, kind) ==
  IF kind = "none" THEN <<>>
  ELSE CASE key[3] = 1 ->
              [f \in {"SAI_FDB_ENTRY_ATTR_TYPE", "SAI_FDB_ENTRY_ATTR_BRIDGE_PORT_ID"} |->
                 IF f = "SAI_FDB_ENTRY_ATTR_TYPE" THEN "SAI_FDB_ENTRY_TYPE_DYNAMIC"
                 ELSE <<13, 5>>]
         [] key[3] = 8 ->
              [f \in {"SAI_FDB_ENTRY_ATTR_TYPE", "SAI_FDB_ENTRY_ATTR_BRIDGE_PORT_ID"} |->
                 IF f = "SAI_FDB_ENTRY_ATTR_TYPE" THEN " Static"
                 ELSE <<13, 6>>]
         [] OTHER -> [f \in {"SAI_FDB_ENTRY_ATTR_ENDPOINT_IP"} |-> "10.0.0.1"]

\* VLAN object keys a scan may return: oid:0x1 with VLAN id " 20", oid:0x2
\* without a VLAN id, the bare prefix
VlanObjectPool ==
  {VlanObjectPrefix \o <<13, 1>>, VlanObjectPrefix \o <<13, 2>>, VlanObjectPrefix}

\* vlanData["SAI_VLAN_ATTR_VLAN_ID"] of a VLAN object
VlanObjectId(vlanKey) ==
  IF vlanKey = VlanObjectPrefix \o <<13, 1>> THEN <<9, 2, 0>> ELSE <<>>

\* bridge port keys a scan may return: oid:0x5 on port oid:0x7, oid:0x6 on a
\* port oid:0x9 that has no name
BridgePortPool == {BridgePortPrefix \o <<13, 5>>, BridgePortPrefix \o <<13, 6>>}

\* further bridge port keys a scan may return: oid:0x4 without a port id (a
\* bridge port that is no port), the bare prefix
BridgePortOddPool == {BridgePortPrefix \o <<13, 4>>, BridgePortPrefix}

\* bridgePortData["SAI_BRIDGE_PORT_ATTR_PORT_ID"] of a bridge port
BridgePortPortId(bridgePortKey) ==
  IF bridgePortKey = BridgePortPrefix \o <<13, 5>> THEN <<13, 7>>
  ELSE IF bridgePortKey = BridgePortPrefix \o <<13, 6>> THEN <<13, 9>>
  ELSE <<>>

\* map[key] of a map of strings: a key that is not set reads as ""
MapGet(map, key) == IF key \in DOMAIN map THEN map[key] ELSE <<>>

\* map[key]++ of a map of counts
MapInc(map, key) ==
  IF key \in DOMAIN map THEN [map EXCEPT ![key] = @ + 1]
  ELSE [k \in DOMAIN map \cup {key} |-> IF k = key THEN 1 ELSE map[k]]

\* what COUNTERS_PORT_NAME_MAP holds as pairs of a name and an object id:
\* Ethernet1 at oid:0x7
PortNameTable == {<<(<<10, 1>>), (<<13, 7>>)>>}

\* a further field COUNTERS_PORT_NAME_MAP may hold: Ethernet2, also at oid:0x7
PortNameAlias == {<<(<<10, 2>>), (<<13, 7>>)>>}

\* what COUNTERS_LAG_NAME_MAP holds: PortChannel1 at oid:0x8
LagNameTable == {<<(<<11, 1>>), (<<13, 8>>)>>}

\* portOidToNameMap: the maps the two range loops can leave.  Each loop
\* assigns oidToName[oid] = name in the iteration order of a Go map, which is
\* not fixed: of several names at one object id the one iterated last stays;
\* the LAG table is walked after the port table
portOidToNameMap(portNameMap, lagNameMap) ==
  LET names == {p[1] : p \in portNameMap \cup lagNameMap}
      oids == {p[2] : p \in portNameMap \cup lagNameMap}
  IN {oidToName \in [oids -> names] :
        \A oid \in oids :
          IF \E p \in lagNameMap : p[2] = oid
          THEN <<oidToName[oid], oid>> \in lagNameMap
          ELSE <<oidToName[oid], oid>> \in portNameMap}

\* bvidToVlanMap: the map and the number of VLAN objects skipped
bvidToVlanMap(vlanKeys) ==
  LET bad == {k \in vlanKeys : BadName(TrimPrefix(k, VlanObjectPrefix), k)}
      noId == {k \in vlanKeys \ bad : TrimSpace(VlanObjectId(k)) = <<>>}
      good == (vlanKeys \ bad) \ noId
  IN [map |-> [bvid \in {TrimPrefix(k, VlanObjectPrefix) : k \in good} |->
                 TrimSpace(VlanObjectId(VlanObjectPrefix \o bvid))],
      skippedEntries |-> Cardinality(bad) + Cardinality(noId)]

\* bridgePortToPortMap: the map and the number of bridge ports skipped
bridgePortToPortMap(bridgePortKeys, portOidToName) ==
  LET bad == {k \in bridgePortKeys : BadName(TrimPrefix(k, BridgePortPrefix), k)}
      noPort == {k \in bridgePortKeys \ bad : BridgePortPortId(k) = <<>>}
      noName == {k \in (bridgePortKeys \ bad) \ noPort :
                   MapGet(portOidToName, BridgePortPortId(k)) = <<>>}
      good == ((bridgePortKeys \ bad) \ noPort) \ noName
  IN [map |-> [id \in {TrimPrefix(k, BridgePortPrefix) : k \in good} |->
                 portOidToName[BridgePortPortId(BridgePortPrefix \o id)]],
      skippedEntries |-> Cardinality(bad) + Cardinality(noName)]

\* strings.Split
RECURSIVE Split(_, _)
Split(str, sep) ==
  IF \E i \in 1..Len(str) : str[i] = sep
  THEN <<SplitN(str, sep)[1]>> \o Split(SplitN(str, sep)[2], sep)
  ELSE <<str>>

\* parseFDBKey: the payload after the prefix is decoded into its vlan, bvid
\* and mac members; ok is false where the code returns an error
parseFDBKey(fdbKey) ==
  LET payload == TrimPrefix(fdbKey, FdbPrefix)
      parts == Split(payload, 8)
      none == [ok |-> FALSE, Vlan |-> <<>>, Bvid |-> <<>>, Mac |-> <<>>]
  IN IF BadName(payload, fdbKey) THEN none
     ELSE IF Len(parts) # 3 THEN none
     ELSE IF parts[3] = <<>> THEN [none EXCEPT !.Vlan = parts[1], !.Bvid = parts[2]]
     ELSE [ok |-> TRUE, Vlan |-> parts[1], Bvid |-> parts[2], Mac |-> parts[3]]

\* an unresolved VLAN is labeled but not flagged as unknown
resolveFDBVLANLabel_NeverFlagged(entryKey, bvidToVlan) ==
  IF TrimSpace(entryKey.Vlan) # <<>>
  THEN [vlanLabel |-> TrimSpace(entryKey.Vlan), unknownVLAN |-> FALSE]
  ELSE IF MapGet(bvidToVlan, TrimSpace(entryKey.Bvid)) # <<>>
  THEN [vlanLabel |-> MapGet(bvidToVlan, TrimSpace(entryKey.Bvid)), unknownVLAN |-> FALSE]
  ELSE [vlanLabel |-> Unknown, unknownVLAN |-> FALSE]

\* the VLAN-object map is consulted before the VLAN of the key
resolveFDBVLANLabel_MapFirst(entryKey, bvidToVlan) ==
  IF MapGet(bvidToVlan, TrimSpace(entryKey.Bvid)) # <<>>
  THEN [vlanLabel |-> MapGet(bvidToVlan, TrimSpace(entryKey.Bvid)), unknownVLAN |-> FALSE]
  ELSE IF TrimSpace(entryKey.Vlan) # <<>>
  THEN [vlanLabel |-> TrimSpace(entryKey.Vlan), unknownVLAN |-> FALSE]
  ELSE [vlanLabel |-> Unknown, unknownVLAN |-> TRUE]

resolveFDBVLANLabel(entryKey, bvidToVlan) ==
  IF TrimSpace(entryKey.Vlan) # <<>>
  THEN [vlanLabel |-> TrimSpace(entryKey.Vlan), unknownVLAN |-> FALSE]
  ELSE IF MapGet(bvidToVlan, TrimSpace(entryKey.Bvid)) # <<>>
  THEN [vlanLabel |-> MapGet(bvidToVlan, TrimSpace(entryKey.Bvid)), unknownVLAN |-> FALSE]
  ELSE [vlanLabel |-> Unknown, unknownVLAN |-> TRUE]

\* normalizeFDBType on the values the store holds: lower case, no blanks
\* around it, no "sai_fdb_entry_type_" before it
normalizeFDBType(rawValue) ==
  CASE rawValue = "SAI_FDB_ENTRY_TYPE_DYNAMIC" -> <<12>>
    [] rawValue = " Static" -> <<14>>
    [] OTHER -> <<>>

sortedMapKeys(values) == SortStrings(DOMAIN values)

\* scrapeMetrics is entered: the store holds some objects, the configuration
\* is loaded
InitFdb ==
  /\ domain = "fdb"
  /\ CollectorAtRest
  /\ \E present \in SUBSET FdbEntryPool, bad \in SUBSET FdbBadKeyPool,
        vlanObjects \in SUBSET VlanObjectPool, bridgePorts \in SUBSET BridgePortPool,
        maxEntries \in 1..MaxCap, maxVlans \in 1..MaxCap, maxPorts \in 1..MaxCap :
       \E hashes \in [present -> FdbHashPool] :
         scrape = [pc |-> "maps", db |-> hashes, dbBad |-> bad,
                   dbVlanObjects |-> vlanObjects, dbBridgePorts |-> bridgePorts,
                   dbPortNames |-> PortNameTable, dbLagNames |-> LagNameTable,
                   maxEntries |-> maxEntries, maxVlans |-> maxVlans,
                   maxPorts |-> maxPorts,
                   bvidToVlan |-> <<>>, bridgePortToPort |-> <<>>,
                   bridgeSkippedEntries |-> 0,
                   keys |-> <<>>, idx |-> 0, skippedEntries |-> 0,
                   truncated |-> 0, entriesTotal |-> 0, unknownVLANEntries |-> 0,
                   entriesByVLAN |-> <<>>, entriesByPort |-> <<>>,
                   entriesByType |-> <<>>, metrics |-> <<>>,
                   fetched |-> {}, err |-> NoErr]

\* redis.NewClient, portOidToNameMap, bvidToVlanMap, bridgePortToPortMap
FdbBuildMaps ==
  /\ domain = "fdb"
  /\ scrape.pc = "maps"
  /\ \E portOidToName \in portOidToNameMap(scrape.dbPortNames, scrape.dbLagNames) :
     LET vlans == bvidToVlanMap(scrape.dbVlanObjects)
         ports == bridgePortToPortMap(scrape.dbBridgePorts, portOidToName)
     IN scrape' = [scrape EXCEPT
                     !.pc = "scan",
                     !.bvidToVlan = vlans.map,
                     !.bridgePortToPort = ports.map,
                     !.bridgeSkippedEntries = ports.skippedEntries,
                     !.skippedEntries = vlans.skippedEntries + ports.skippedEntries]
  /\ UNCHANGED collectorVars

\* ScanKeysFromDb of the FDB entries and sort.Strings(fdbKeys)
FdbScanKeys ==
  /\ domain = "fdb"
  /\ scrape.pc = "scan"
  /\ scrape' = [scrape EXCEPT !.pc = "walk", !.idx = 0,
                              !.keys = SortStrings(DOMAIN scrape.db \cup scrape.dbBad)]
  /\ UNCHANGED collectorVars

\* the entry cap lets one key too many through
OverEntryCap_Never(idx, max) == FALSE

OverEntryCap_OffByOne(idx, max) == idx > max

\* if idx >= collector.config.maxEntries
OverEntryCap(idx, max) == idx >= max

\* one key too few is counted when the loop is left
TruncatedSkips_OneLess(len, idx) == len - idx - 1

\* skippedEntries += len(fdbKeys) - idx
TruncatedSkips(len, idx) == len - idx

\* one iteration of the loop over the sorted keys; idx counts from 0
FdbWalkKey ==
  /\ domain = "fdb"
  /\ scrape.pc = "walk"
  /\ scrape.idx < Len(scrape.keys)
  /\ LET fdbKey == scrape.keys[scrape.idx + 1]
         parsedKey == parseFDBKey(fdbKey)
         fdbData == FdbHash(fdbKey, scrape.db[fdbKey])
         resolved == resolveFDBVLANLabel(parsedKey, scrape.bvidToVlan)
         normalized == normalizeFDBType(MapGet(fdbData, "SAI_FDB_ENTRY_ATTR_TYPE"))
         entryType == IF normalized = <<>> THEN Unknown ELSE normalized
         port == MapGet(scrape.bridgePortToPort,
                        MapGet(fdbData, "SAI_FDB_ENTRY_ATTR_BRIDGE_PORT_ID"))
         portLabel == IF port = <<>> THEN Unknown ELSE port
         read == [scrape EXCEPT !.fetched = @ \cup {fdbKey}, !.idx = @ + 1]
     IN scrape' =
          IF OverEntryCap(scrape.idx, scrape.maxEntries)
          THEN [scrape EXCEPT
                  !.pc = "emit",
                  !.truncated = 1,
                  !.skippedEntries = @ + TruncatedSkips(Len(scrape.keys), scrape.idx)]
          ELSE IF ~parsedKey.ok
          THEN [scrape EXCEPT !.skippedEntries = @ + 1, !.idx = @ + 1]
          ELSE IF DOMAIN fdbData = {}
          THEN [read EXCEPT !.skippedEntries = @ + 1]
          ELSE [read EXCEPT
                  !.unknownVLANEntries = IF resolved.unknownVLAN THEN @ + 1 ELSE @,
                  !.entriesTotal = @ + 1,
                  !.entriesByVLAN = MapInc(@, resolved.vlanLabel),
                  !.entriesByPort = MapInc(@, portLabel),
                  !.entriesByType = MapInc(@, entryType)]
  /\ UNCHANGED collectorVars

\* the loop over the sorted keys has seen every key
FdbWalkEnd ==
  /\ domain = "fdb"
  /\ scrape.pc = "walk"
  /\ scrape.idx >= Len(scrape.keys)
  /\ scrape' = [scrape EXCEPT !.pc = "emit"]
  /\ UNCHANGED collectorVars

\* one series too many is kept
SeriesKept_OneMore(names, max) ==
  SubSeq(names, 1, IF Len(names) <= max + 1 THEN Len(names) ELSE max + 1)

\* the names a series loop reaches before idx >= max: the first max of them
SeriesKept(names, max) ==
  SubSeq(names, 1, IF Len(names) <= max THEN Len(names) ELSE max)

\* every series is given the value 1
SeriesMetrics_Ones(desc, names, values) ==
  [i \in 1..Len(names) |-> [desc |-> desc, label |-> names[i], value |-> 1]]

\* the records of one kind of series
SeriesMetrics(desc, names, values) ==
  [i \in 1..Len(names) |->
     [desc |-> desc, label |-> names[i], value |-> values[names[i]]]]

\* the records are built and scrapeMetrics returns them with the skipped
\* count and the truncated flag
FdbEmitSeries ==
  /\ domain = "fdb"
  /\ scrape.pc = "emit"
  /\ LET vlanNames == sortedMapKeys(scrape.entriesByVLAN)
         portNames == sortedMapKeys(scrape.entriesByPort)
         entryTypes == sortedMapKeys(scrape.entriesByType)
         keptVlans == SeriesKept(vlanNames, scrape.maxVlans)
         keptPorts == SeriesKept(portNames, scrape.maxPorts)
     IN scrape' = [scrape EXCEPT
          !.pc = "done",
          !.metrics =
             <<[desc |-> "entries", label |-> <<>>, value |-> scrape.entriesTotal],
               [desc |-> "entries_unknown_vlan", label |-> <<>>,
                value |-> scrape.unknownVLANEntries]>>
               \o SeriesMetrics("entries_by_vlan", keptVlans, scrape.entriesByVLAN)
               \o SeriesMetrics("entries_by_port", keptPorts, scrape.entriesByPort)
               \o SeriesMetrics("entries_by_type", entryTypes, scrape.entriesByType),
          !.skippedEntries = @ + (Len(vlanNames) - Len(keptVlans))
                               + (Len(portNames) - Len(keptPorts))]
  /\ UNCHANGED collectorVars

\* the client creation, a scan or a fetch fails: return nil, 0, 0, err
FdbScrapeFail ==
  /\ domain = "fdb"
  /\ \/ scrape.pc \in {"maps", "scan"}
     \/ /\ scrape.pc = "walk"
        /\ scrape.idx < Len(scrape.keys)
        /\ ~OverEntryCap(scrape.idx, scrape.maxEntries)
        /\ parseFDBKey(scrape.keys[scrape.idx + 1]).ok
  /\ scrape' = [scrape EXCEPT !.pc = "failed", !.metrics = <<>>,
                              !.skippedEntries = 0, !.truncated = 0,
                              !.err = ErrUnavailable]
  /\ UNCHANGED collectorVars

NextFdb ==
  \/ FdbBuildMaps
  \/ FdbScanKeys
  \/ FdbWalkKey
  \/ FdbWalkEnd
  \/ FdbEmitSeries
  \/ FdbScrapeFail

FdbSpec == InitFdb /\ [][NextFdb]_vars

\* scrapeMetrics is entered with every kind of bridge port object in the
\* store; the FDB entries that exist have their attributes
InitFdbBridge ==
  /\ domain = "fdb"
  /\ CollectorAtRest
  /\ \E present \in SUBSET FdbEntryPool,
        vlanObjects \in SUBSET VlanObjectPool,
        bridgePorts \in SUBSET (BridgePortPool \cup BridgePortOddPool) :
       scrape = [pc |-> "maps", db |-> [k \in present |-> "attrs"], dbBad |-> {},
                 dbVlanObjects |-> vlanObjects, dbBridgePorts |-> bridgePorts,
                 dbPortNames |-> PortNameTable, dbLagNames |-> LagNameTable,
                 maxEntries |-> MaxCap, maxVlans |-> MaxCap, maxPorts |-> MaxCap,
                 bvidToVlan |-> <<>>, bridgePortToPort |-> <<>>,
                 bridgeSkippedEntries |-> 0,
                 keys |-> <<>>, idx |-> 0, skippedEntries |-> 0,
                 truncated |-> 0, entriesTotal |-> 0, unknownVLANEntries |-> 0,
                 entriesByVLAN |-> <<>>, entriesByPort |-> <<>>,
                 entriesByType |-> <<>>, metrics |-> <<>>,
                 fetched |-> {}, err |-> NoErr]

FdbBridgeSpec == InitFdbBridge /\ [][NextFdb]_vars

\* the collector is about to refresh for the first time; the port name
\* table may hold two names at one object id
InitFdbTwice ==
  /\ domain = "fdb"
  /\ CollectorAtRest
  /\ \E present \in SUBSET FdbEntryPool,
        vlanObjects \in SUBSET VlanObjectPool,
        bridgePorts \in SUBSET BridgePortPool,
        aliases \in SUBSET PortNameAlias :
       scrape = [pc |-> "maps", db |-> [k \in present |-> "attrs"], dbBad |-> {},
                 dbVlanObjects |-> vlanObjects, dbBridgePorts |-> bridgePorts,
                 dbPortNames |-> PortNameTable \cup aliases,
                 dbLagNames |-> LagNameTable,
                 maxEntries |-> MaxCap, maxVlans |-> MaxCap, maxPorts |-> MaxCap,
                 bvidToVlan |-> <<>>, bridgePortToPort |-> <<>>,
                 bridgeSkippedEntries |-> 0,
                 keys |-> <<>>, idx |-> 0, skippedEntries |-> 0,
                 truncated |-> 0, entriesTotal |-> 0, unknownVLANEntries |-> 0,
                 entriesByVLAN |-> <<>>, entriesByPort |-> <<>>,
                 entriesByType |-> <<>>, metrics |-> <<>>,
                 fetched |-> {}, err |-> NoErr,
                 cycle |-> 1,
                 cachedMetrics |-> <<>>, lastSkippedEntries |-> 0,
                 lastTruncated |-> 0]

\* refreshMetrics commits what scrapeMetrics returned, and the next tick of
\* refreshLoop enters scrapeMetrics again over the same store
FdbNextCycle ==
  /\ domain = "fdb"
  /\ scrape.pc = "done"
  /\ scrape.cycle = 1
  /\ scrape' = [scrape EXCEPT
       !.cachedMetrics = scrape.metrics,
       !.lastSkippedEntries = scrape.skippedEntries,
       !.lastTruncated = scrape.truncated,
       !.cycle = 2,
       !.pc = "maps",
       !.bvidToVlan = <<>>, !.bridgePortToPort = <<>>,
       !.bridgeSkippedEntries = 0,
       !.keys = <<>>, !.idx = 0, !.skippedEntries = 0,
       !.truncated = 0, !.entriesTotal = 0, !.unknownVLANEntries = 0,
       !.entriesByVLAN = <<>>, !.entriesByPort = <<>>,
       !.entriesByType = <<>>, !.metrics = <<>>,
       !.fetched = {}]
  /\ UNCHANGED collectorVars

NextFdbTwice ==
  \/ NextFdb
  \/ FdbNextCycle

FdbTwiceSpec == InitFdbTwice /\ [][NextFdbTwice]_vars

\* scrapeMetrics of any of the five cached domains is entered
InitDomains ==
  \/ InitPipeline
  \/ InitLldp
  \/ InitDocker
  \/ InitFdb

\* a step of the scrapeMetrics that was entered
NextDomains ==
  \/ domain \in {"vlan", "lag"} /\ NextPipeline
  \/ NextLldp
  \/ NextDocker
  \/ NextFdb

DomainsSpec == InitDomains /\ [][NextDomains]_vars

\* status values without blanks and in small letters: up, enabled, selected,
\* active, true, ok; then down, disabled, false, yes, u, upp, okay, the empty
\* string, and "u p" with a blank inside
StatusWords ==
  {<<117, 112>>, <<101, 110, 97, 98, 108, 101, 100>>,
   <<115, 101, 108, 101, 99, 116, 101, 100>>, <<97, 99, 116, 105, 118, 101>>,
   <<116, 114, 117, 101>>, <<111, 107>>,
   <<100, 111, 119, 110>>, <<100, 105, 115, 97, 98, 108, 101, 100>>,
   <<102, 97, 108, 115, 101>>, <<121, 101, 115>>, <<117>>, <<117, 112, 112>>,
   <<111, 107, 97, 121>>, <<>>, <<117, 9, 112>>}

\* how a status value is written: as it is, in capitals, or with a capital
\* first letter
StatusCases == {"lower", "upper", "title"}

\* a word with its letters written in the given way
Written(word, case) ==
  [i \in 1..Len(word) |->
     IF word[i] \in 97..122 /\ (case = "upper" \/ (case = "title" /\ i = 1))
     THEN word[i] - 32 ELSE word[i]]

\* n blanks
Blanks(n) == [i \in 1..n |-> 9]

\* statusToGauge is about to be called on a status value the store holds
InitStatus ==
  /\ domain = "status"
  /\ CollectorAtRest
  /\ \E word \in StatusWords, case \in StatusCases, lead \in 0..1, trail \in 0..2 :
       scrape = [pc |-> "call", word |-> word,
                 status |-> Blanks(lead) \o Written(word, case) \o Blanks(trail),
                 value |-> 0]

\* statusToGauge(status)
CallStatusToGauge ==
  /\ domain = "status"
  /\ scrape.pc = "call"
  /\ scrape' = [scrape EXCEPT !.pc = "done", !.value = statusToGauge(scrape.status)]
  /\ UNCHANGED collectorVars

NextStatus == CallStatusToGauge

StatusSpec == InitStatus /\ [][NextStatus]_vars

\* port-id subtypes without blanks and in small letters: 7, local, 3, mac;
\* then 5, 1, macx, loca, the empty string, and "7 3" with a blank inside
SubtypeWords ==
  {<<55>>, <<108, 111, 99, 97, 108>>, <<51>>, <<109, 97, 99>>,
   <<53>>, <<49>>, <<109, 97, 99, 120>>, <<108, 111, 99, 97>>, <<>>,
   <<55, 9, 51>>}

\* the loop body of scrapeMetrics has fetched an entry: its fields are set
\* ("s1", "E1", "up", "aa", "1") or not, the subtype is any of the words,
\* in any letters, with or without blanks around it
InitDisplay ==
  /\ domain = "lldp"
  /\ CollectorAtRest
  /\ \E word \in SubtypeWords, case \in StatusCases, lead \in 0..1, trail \in 0..1,
        set \in SUBSET {"lldp_rem_sys_name", "lldp_rem_port_id",
                        "lldp_rem_port_desc", "lldp_rem_chassis_id",
                        "lldp_rem_man_addr"} :
       scrape = [pc |-> "display", word |-> word,
                 lldpData |->
                   [f \in set \cup {"lldp_rem_port_id_subtype"} |->
                      IF f = "lldp_rem_port_id_subtype"
                      THEN Blanks(lead) \o Written(word, case) \o Blanks(trail)
                      ELSE LldpHash("full")[f]],
                 remotePortDisplay |-> <<>>, skipped |-> FALSE, emitted |-> FALSE]

\* remotePortDisplay := resolvedRemotePortDisplay(...)
CallResolvedDisplay ==
  /\ domain = "lldp"
  /\ scrape.pc = "display"
  /\ scrape' = [scrape EXCEPT
       !.pc = "check",
       !.remotePortDisplay =
         resolvedRemotePortDisplay(
           HashField(scrape.lldpData, "lldp_rem_port_id"),
           HashField(scrape.lldpData, "lldp_rem_port_desc"),
           HashField(scrape.lldpData, "lldp_rem_port_id_subtype"))]
  /\ UNCHANGED collectorVars

\* the entry without any of the five remote fields is skipped, every other
\* one is appended
LldpEntryCheck ==
  /\ domain = "lldp"
  /\ scrape.pc = "check"
  /\ scrape' = [scrape EXCEPT
       !.pc = "done",
       !.skipped = NoRemoteField(scrape.lldpData),
       !.emitted = ~NoRemoteField(scrape.lldpData)]
  /\ UNCHANGED collectorVars

NextDisplay ==
  \/ CallResolvedDisplay
  \/ LldpEntryCheck

DisplaySpec == InitDisplay /\ [][NextDisplay]_vars

\* the collectors with an enabled flag
OptionalDomains == {"lldp", "vlan", "lag", "fdb", "system", "docker"}

\* the health gauges every one of them sends after its cached records
HealthGauges == <<"scrape_duration_seconds", "collector_success", "cache_age_seconds">>

\* the health gauges are sent whatever the enabled flag says
CollectSends_HealthAlways(enabled, cachedMetrics) ==
  IF ~enabled THEN HealthGauges ELSE cachedMetrics \o HealthGauges

\* Collect: if !collector.config.enabled { return }; else the cached records
\* and the health gauges
CollectSends(enabled, cachedMetrics) ==
  IF ~enabled THEN <<>> ELSE cachedMetrics \o HealthGauges

\* IsEnabled()
IsEnabled(config) == config.enabled

\* the constructor has built the collector and loaded its configuration; the
\* enabled flag is what parseBoolEnv made of the environment
InitBoot ==
  /\ domain \in OptionalDomains
  /\ CollectorAtRest
  /\ \E enabled \in BOOLEAN :
       scrape = [pc |-> "new", config |-> [enabled |-> enabled],
                 refreshes |-> 0, loop |-> "off", registered |-> FALSE,
                 cachedMetrics |-> <<>>, lastSuccess |-> 0,
                 collects |-> 0, sent |-> <<>>]

\* the rest of the constructor: a disabled collector is returned as it is, an
\* enabled one refreshes once and starts refreshLoop
BootConstruct ==
  /\ domain \in OptionalDomains
  /\ scrape.pc = "new"
  /\ IF ~scrape.config.enabled
     THEN scrape' = [scrape EXCEPT !.pc = "built"]
     ELSE \E n \in 0..MaxData, ok \in BOOLEAN :
            scrape' = [scrape EXCEPT
              !.pc = "built", !.loop = "wait",
              !.refreshes = @ + 1,
              !.cachedMetrics = IF ok THEN [i \in 1..n |-> "record"] ELSE @,
              !.lastSuccess = IF ok THEN 1 ELSE 0]
  /\ UNCHANGED collectorVars

\* main: of the optional collectors it builds the LLDP collector, and
\* registers it if lldpCollector.IsEnabled()
BootRegister ==
  /\ domain \in OptionalDomains
  /\ scrape.pc = "built"
  /\ scrape' = [scrape EXCEPT
       !.pc = "serving",
       !.registered = (domain = "lldp" /\ IsEnabled(scrape.config))]
  /\ UNCHANGED collectorVars

\* for range ticker.C { collector.refreshMetrics() }
BootLoopTick ==
  /\ domain \in OptionalDomains
  /\ scrape.loop = "wait"
  /\ scrape.refreshes < MaxCycles
  /\ \E n \in 0..MaxData, ok \in BOOLEAN :
       scrape' = [scrape EXCEPT
         !.refreshes = @ + 1,
         !.cachedMetrics = IF ok THEN [i \in 1..n |-> "record"] ELSE @,
         !.lastSuccess = IF ok THEN 1 ELSE 0]
  /\ UNCHANGED collectorVars

\* Collect is called on the collector, by the registry or directly
BootCollect ==
  /\ domain \in OptionalDomains
  /\ scrape.pc \in {"built", "serving"}
  /\ scrape.collects < MaxCycles
  /\ scrape' = [scrape EXCEPT
       !.collects = @ + 1,
       !.sent = CollectSends(scrape.config.enabled, scrape.cachedMetrics)]
  /\ UNCHANGED collectorVars

NextBoot ==
  \/ BootConstruct
  \/ BootRegister
  \/ BootLoopTick
  \/ BootCollect

BootSpec == InitBoot /\ [][NextBoot]_vars

(***************************************************************************)
(* The scrape-time cache of the interface, hw, crm and queue collectors:   *)
(* Collect refreshes inside the call when the cache is older than the      *)
(* window, under the collector's sync.Mutex.                               *)
(***************************************************************************)

\* clock readings after the start, five seconds apart
MaxTicks == 3

\* the freshness window: 15 seconds
CacheDuration == 15

Callers == 1..NumReaders

\* every Collect finds the cache stale
CacheFresh_Never(clock, lastScrapeTime) == FALSE

\* time.Since(lastScrapeTime) < 15s
CacheFresh(clock, lastScrapeTime) == clock - lastScrapeTime < CacheDuration

\* the collector is built: nothing cached, lastScrapeTime is the zero time,
\* which lies a window or more before the first Collect
InitOnDemand ==
  /\ domain \in {"interface", "hw", "crm", "queue"}
  /\ CollectorAtRest
  /\ scrape = [clock |-> CacheDuration, ticks |-> 0, mu |-> 0,
               lastScrapeTime |-> 0, cachedMetrics |-> 0, version |-> 0,
               refreshTimes |-> <<>>,
               pc |-> [c \in Callers |-> "idle"],
               collects |-> [c \in Callers |-> 0],
               call |-> [c \in Callers |->
                           [arrived |-> 0, lockTime |-> 0, lastAtLock |-> 0,
                            versionAtLock |-> 0, scraped |-> FALSE,
                            sent |-> 0, sentVersion |-> 0]]]

\* the clock moves on
OnDemandTick ==
  /\ domain \in {"interface", "hw", "crm", "queue"}
  /\ scrape.ticks < MaxTicks
  /\ scrape' = [scrape EXCEPT !.ticks = @ + 1, !.clock = @ + 5]
  /\ UNCHANGED collectorVars

\* Collect is called and asks for the mutex; one call of each caller is
\* followed
OnDemandCollect(c) ==
  /\ domain \in {"interface", "hw", "crm", "queue"}
  /\ scrape.pc[c] = "idle"
  /\ scrape.collects[c] = 0
  /\ scrape' = [scrape EXCEPT
       !.pc[c] = "wait",
       !.collects[c] = @ + 1,
       !.call[c] = [arrived |-> scrape.clock, lockTime |-> 0, lastAtLock |-> 0,
                    versionAtLock |-> 0, scraped |-> FALSE,
                    sent |-> 0, sentVersion |-> 0]]
  /\ UNCHANGED collectorVars

\* the mutex is granted; Collect checks the age of the cache
OnDemandLock(c) ==
  /\ domain \in {"interface", "hw", "crm", "queue"}
  /\ scrape.pc[c] = "wait"
  /\ scrape.mu = 0
  /\ scrape' = [scrape EXCEPT
       !.mu = c,
       !.pc[c] = IF CacheFresh(scrape.clock, scrape.lastScrapeTime)
                 THEN "emit" ELSE "scrape",
       !.call[c].lockTime = scrape.clock,
       !.call[c].lastAtLock = scrape.lastScrapeTime,
       !.call[c].versionAtLock = scrape.version]
  /\ UNCHANGED collectorVars

\* stale: scrapeMetrics runs, the cache is rebuilt with the health metrics
OnDemandScrape(c) ==
  /\ domain \in {"interface", "hw", "crm", "queue"}
  /\ scrape.pc[c] = "scrape"
  /\ \E out \in 0..MaxData :
       scrape' = [scrape EXCEPT
         !.pc[c] = "emit",
         !.cachedMetrics = out,
         !.version = @ + 1,
         !.lastScrapeTime = scrape.clock,
         !.refreshTimes = Append(@, scrape.clock),
         !.call[c].scraped = TRUE]
  /\ UNCHANGED collectorVars

\* the cached metrics are sent and the mutex is released
OnDemandEmit(c) ==
  /\ domain \in {"interface", "hw", "crm", "queue"}
  /\ scrape.pc[c] = "emit"
  /\ scrape' = [scrape EXCEPT
       !.pc[c] = "idle",
       !.mu = 0,
       !.call[c].sent = scrape.cachedMetrics,
       !.call[c].sentVersion = scrape.version]
  /\ UNCHANGED collectorVars

NextOnDemand ==
  \/ OnDemandTick
  \/ \E c \in Callers :
       \/ OnDemandCollect(c)
       \/ OnDemandLock(c)
       \/ OnDemandScrape(c)
       \/ OnDemandEmit(c)

OnDemandSpec == InitOnDemand /\ [][NextOnDemand]_vars

(***************************************************************************)
(* The System collector: the sources of one scrapeMetrics call and the     *)
(* allowlist of runAllowedCommand.  A command argument is a sequence of    *)
(* words, 0 being the blank: show 1, platform 2, summary 3, --json 4,      *)
(* version 5, syseeprom 6, reboot 7.  A metadata value is a sequence of     *)
(* character codes: ' is 39, " is 34, the blank 9, a digit 48..57.          *)
(***************************************************************************)

\* strings.Join(args, " ")
RECURSIVE Join(_)
Join(args) ==
  IF args = <<>> THEN <<>>
  ELSE IF Len(args) = 1 THEN args[1]
  ELSE args[1] \o <<0>> \o Join(Tail(args))

\* every command that begins with show is let through
Allowed_AnyShow(commandString) == commandString # <<>> /\ commandString[1] = 1

\* _, ok := allowlist[commandString]
Allowed(commandString) ==
  commandString \in {<<1, 0, 2, 0, 3, 0, 4>>, <<1, 0, 5>>, <<1, 0, 2, 0, 6>>}

\* runAllowedCommand: a list that is not allowed returns an error before
\* exec.CommandContext; an allowed one starts the process, which runs to its
\* end (ran) or fails or times out
runAllowedCommand(args, ran) ==
  IF ~Allowed(Join(args))
  THEN [started |-> FALSE, err |-> TRUE]
  ELSE [started |-> TRUE, err |-> ~ran]

\* strings.Trim(value, "'\"")
RECURSIVE TrimQuotes(_)
TrimQuotes(str) ==
  IF str = <<>> THEN str
  ELSE IF Head(str) \in {39, 34} THEN TrimQuotes(Tail(str))
  ELSE IF str[Len(str)] \in {39, 34} THEN TrimQuotes(SubSeq(str, 1, Len(str) - 1))
  ELSE str

\* normalizeSystemValue: quotes and blanks around the value are cut; n/a, na
\* and null in any letters are no value
normalizeSystemValue(value) ==
  LET trimmed == TrimSpace(TrimQuotes(value))
      lowered == ToLower(trimmed)
  IN IF \/ trimmed = <<>>
        \/ lowered = <<110, 47, 97>>
        \/ lowered = <<110, 97>>
        \/ lowered = <<110, 117, 108, 108>>
     THEN <<>> ELSE trimmed

\* a later source replaces the value
setIfEmpty_Overwrite(target, value) ==
  IF normalizeSystemValue(value) = <<>> THEN target
  ELSE normalizeSystemValue(value)

\* setIfEmpty: what *target is afterwards
setIfEmpty(target, value) ==
  LET normalized == normalizeSystemValue(value)
  IN IF normalized = <<>> THEN target
     ELSE IF target = <<>> THEN normalized
     ELSE target

\* the sources in the order scrapeMetrics calls their loaders
SystemSources ==
  <<"redis.device_metadata", "redis.chassis_info", "file.sonic_version",
    "file.machine_conf", "file.hostname", "cmd.show_platform_summary",
    "cmd.show_version", "cmd.show_platform_syseeprom">>

\* the metadata fields followed
SystemFields ==
  {"hostname", "platform", "serial", "model", "revision", "sonic_version"}

\* the followed fields a source has a setIfEmpty call for
SourceFields(source) ==
  CASE source = "redis.device_metadata" -> {"hostname", "platform"}
    [] source = "redis.chassis_info" -> {"serial", "model", "revision"}
    [] source = "file.sonic_version" -> {"sonic_version"}
    [] source = "file.machine_conf" -> {"platform"}
    [] source = "file.hostname" -> {"hostname"}
    [] source = "cmd.show_platform_summary" ->
         {"platform", "serial", "model", "revision"}
    [] source = "cmd.show_version" ->
         {"sonic_version", "platform", "serial", "model", "revision"}
    [] source = "cmd.show_platform_syseeprom" -> {"serial", "model", "revision"}

\* the argument list a command loader passes to runAllowedCommand
SourceArgs(source) ==
  CASE source = "cmd.show_platform_summary" -> <<(<<1>>), (<<2>>), (<<3>>), (<<4>>)>>
    [] source = "cmd.show_version" -> <<(<<1>>), (<<5>>)>>
    [] source = "cmd.show_platform_syseeprom" -> <<(<<1>>), (<<2>>), (<<6>>)>>

\* what a source holds for a field: nothing, "N/A" in double quotes, or a
\* digit of its own between blanks and single quotes
ValueKinds == {"missing", "na", "value"}

SourceValue(k, kind) ==
  CASE kind = "missing" -> <<>>
    [] kind = "na" -> <<34, 78, 47, 65, 34>>
    [] kind = "value" -> <<39, 9, 48 + k, 9, 39>>

\* the metadata after the setIfEmpty calls of source k
Loaded(metadata, k, kinds) ==
  [f \in SystemFields |->
     IF f \in SourceFields(SystemSources[k])
     THEN setIfEmpty(metadata[f], SourceValue(k, kinds[f]))
     ELSE metadata[f]]

\* the fields for which setIfEmpty logs "already populated, fallback ignored"
Ignored(metadata, kinds) ==
  {f \in DOMAIN kinds : kinds[f] = "value" /\ metadata[f] # <<>>}

\* scrapeMetrics is entered: metadata := systemMetadata{}
InitSystem ==
  /\ domain = "system"
  /\ CollectorAtRest
  /\ \E commandEnabled \in BOOLEAN :
       scrape = [pc |-> 1, commandEnabled |-> commandEnabled,
                 metadata |-> [f \in SystemFields |-> <<>>],
                 consulted |-> <<>>, ignored |-> {}, executed |-> <<>>,
                 uptimeSeconds |-> 0, loaded |-> <<>>, metrics |-> <<>>,
                 err |-> FALSE, lastSuccess |-> 0, cachedMetrics |-> <<>>]

\* loadFromRedis, loadFromVersionFile, loadFromMachineConf,
\* loadFromHostnameFile: a source that cannot be read sets nothing
SystemLoad ==
  /\ domain = "system"
  /\ scrape.pc \in 1..5
  /\ \E available \in BOOLEAN,
        kinds \in [SourceFields(SystemSources[scrape.pc]) -> ValueKinds] :
       scrape' = [scrape EXCEPT
         !.pc = @ + 1,
         !.consulted = Append(@, SystemSources[scrape.pc]),
         !.ignored = IF available THEN @ \cup Ignored(scrape.metadata, kinds) ELSE @,
         !.metadata = IF available THEN Loaded(@, scrape.pc, kinds) ELSE @]
  /\ UNCHANGED collectorVars

\* if collector.config.commandEnabled: the command loaders, of which the
\* third is called only if serial, model or revision is still empty
CommandDue(k) ==
  /\ scrape.commandEnabled
  /\ k = 8 => \E f \in {"serial", "model", "revision"} : scrape.metadata[f] = <<>>

\* loadFromShowPlatformSummary, loadFromShowVersion,
\* loadFromShowPlatformSysEEPROM
SystemLoadCommand ==
  /\ domain = "system"
  /\ scrape.pc \in 6..8
  /\ CommandDue(scrape.pc)
  /\ \E ran \in BOOLEAN,
        kinds \in [SourceFields(SystemSources[scrape.pc]) -> ValueKinds] :
       LET ret == runAllowedCommand(SourceArgs(SystemSources[scrape.pc]), ran)
       IN scrape' = [scrape EXCEPT
            !.pc = @ + 1,
            !.consulted = Append(@, SystemSources[scrape.pc]),
            !.executed = IF ret.started
                         THEN Append(@, SourceArgs(SystemSources[scrape.pc]))
                         ELSE @,
            !.ignored = IF ~ret.err THEN @ \cup Ignored(scrape.metadata, kinds) ELSE @,
            !.metadata = IF ~ret.err THEN Loaded(@, scrape.pc, kinds) ELSE @]
  /\ UNCHANGED collectorVars

\* the command sources are disabled, or the third command is not needed
SystemSkipCommand ==
  /\ domain = "system"
  /\ scrape.pc \in 6..8
  /\ ~CommandDue(scrape.pc)
  /\ scrape' = [scrape EXCEPT !.pc = IF scrape.commandEnabled THEN @ + 1 ELSE 9]
  /\ UNCHANGED collectorVars

\* strconv.Atoi(str) returns no error: an optional sign, then digits only
Atoi(str) ==
  LET digits == IF str # <<>> /\ str[1] \in {43, 45} THEN Tail(str) ELSE str
  IN /\ digits # <<>>
     /\ \A i \in 1..Len(digits) : digits[i] \in 48..57

\* a field without value stays empty
finalizeField_Keep(value) == normalizeSystemValue(value)

\* finalizeField: a field without value becomes "unknown"
finalizeField(value) ==
  LET normalized == normalizeSystemValue(value)
  IN IF normalized = <<>> THEN <<117, 110, 107, 110, 111, 119, 110>>
     ELSE normalized

\* the labels of system_identity_info and of system_software_info
IdentityLabels ==
  {"hostname", "platform", "hwsku", "asic", "asic_count", "serial", "model",
   "revision"}

SoftwareLabels ==
  {"sonic_version", "sonic_os_version", "debian_version", "kernel_version",
   "build_commit", "build_date", "built_by", "branch", "release"}

\* finalizeMetadata on the followed fields: asic goes to small letters, an
\* asic_count that is no integer becomes "unknown", a negative uptime 0
finalizeMetadata(metadata) ==
  LET final == [f \in DOMAIN metadata |-> finalizeField(metadata[f])]
  IN [f \in DOMAIN metadata |->
        IF f = "asic" THEN ToLower(final[f])
        ELSE IF f = "asic_count" /\ ~Atoi(final[f])
             THEN <<117, 110, 107, 110, 111, 119, 110>>
        ELSE final[f]]

\* the end of scrapeMetrics: finalizeMetadata, then the three records, and
\* return metrics, nil
SystemFinalize ==
  /\ domain = "system"
  /\ scrape.pc = 9
  /\ LET metadata == finalizeMetadata(scrape.metadata)
         uptimeSeconds == IF scrape.uptimeSeconds < 0 THEN 0
                          ELSE scrape.uptimeSeconds
     IN scrape' = [scrape EXCEPT
          !.pc = 10,
          !.loaded = scrape.metadata,
          !.metadata = metadata,
          !.uptimeSeconds = uptimeSeconds,
          !.metrics =
            <<[desc |-> "system_identity_info", value |-> 1,
               labels |-> [f \in IdentityLabels \cap DOMAIN metadata |->
                             metadata[f]]],
              [desc |-> "system_software_info", value |-> 1,
               labels |-> [f \in SoftwareLabels \cap DOMAIN metadata |->
                             metadata[f]]],
              [desc |-> "system_uptime_seconds", value |-> uptimeSeconds,
               labels |-> <<>>]>>,
          !.err = FALSE]
  /\ UNCHANGED collectorVars

NextSystem ==
  \/ SystemLoad
  \/ SystemLoadCommand
  \/ SystemSkipCommand
  \/ SystemFinalize

SystemSpec == InitSystem /\ [][NextSystem]_vars

\* what the loaders can leave in a metadata field: nothing, or a value
\* already normalised once ("2", "-1", "2x", "A", 'n/a' between quotes)
StoredValues ==
  {<<>>, <<50>>, <<45, 49>>, <<50, 120>>, <<65>>, <<39, 110, 47, 97, 39>>}

\* scrapeMetrics after its loaders have returned, on hostname, asic and
\* asic_count; loadFromUptimeFile has set the uptime or left it 0
InitSystemFinal ==
  /\ domain = "system"
  /\ CollectorAtRest
  /\ \E commandEnabled \in BOOLEAN,
        metadata \in [{"hostname", "asic", "asic_count"} -> StoredValues],
        uptimeSeconds \in {-1, 0, 1} :
       scrape = [pc |-> 9, commandEnabled |-> commandEnabled,
                 metadata |-> metadata,
                 consulted |-> <<>>, ignored |-> {}, executed |-> <<>>,
                 uptimeSeconds |-> uptimeSeconds, loaded |-> <<>>,
                 metrics |-> <<>>, err |-> FALSE, lastSuccess |-> 0,
                 cachedMetrics |-> <<>>]

\* refreshMetrics after scrapeMetrics has returned: an error sets
\* lastSuccess to 0, otherwise the records are committed
SystemCommit ==
  /\ domain = "system"
  /\ scrape.pc = 10
  /\ scrape' = [scrape EXCEPT
       !.pc = 11,
       !.lastSuccess = IF scrape.err THEN 0 ELSE 1,
       !.cachedMetrics = IF scrape.err THEN @ ELSE scrape.metrics]
  /\ UNCHANGED collectorVars

InitSystemRefresh == InitSystem \/ InitSystemFinal

NextSystemRefresh ==
  \/ NextSystem
  \/ SystemCommit

SystemRefreshSpec == InitSystemRefresh /\ [][NextSystemRefresh]_vars

\* the words of a command argument, and "show version" as one argument
CommandWords == {<<1>>, <<2>>, <<3>>, <<4>>, <<5>>, <<6>>, <<7>>, <<1, 0, 5>>}

\* argument lists runAllowedCommand may be called with
CommandArgs ==
  {<<>>} \cup UNION {[1..n -> CommandWords] : n \in 1..3}
         \cup {<<(<<1>>), (<<2>>), (<<3>>), w>> : w \in CommandWords}

\* runAllowedCommand is about to be called with some argument list
InitCommand ==
  /\ domain = "command"
  /\ CollectorAtRest
  /\ \E args \in CommandArgs :
       scrape = [pc |-> "call", args |-> args, executed |-> <<>>,
                 err |-> FALSE]

\* runAllowedCommand(ctx, args)
CallRunAllowedCommand ==
  /\ domain = "command"
  /\ scrape.pc = "call"
  /\ \E ran \in BOOLEAN :
       LET ret == runAllowedCommand(scrape.args, ran)
       IN scrape' = [scrape EXCEPT
            !.pc = "returned",
            !.executed = IF ret.started THEN Append(@, scrape.args) ELSE @,
            !.err = ret.err]
  /\ UNCHANGED collectorVars

\* a System scrapeMetrics call, or one call of runAllowedCommand
InitCommands ==
  \/ InitSystem
  \/ InitCommand

NextCommands ==
  \/ NextSystem
  \/ CallRunAllowedCommand

CommandSpec == InitCommands /\ [][NextCommands]_vars

(***************************************************************************)
(* limitedOutputBuffer, the writer runAllowedCommand gives a command as    *)
(* its standard output and standard error.                                 *)
(***************************************************************************)

\* the largest commandMaxOutputBytes, and the Write calls one command makes
MaxOutputBytes == 2

MaxWrites == 3

\* what one Write call may be handed: up to two bytes, each a or b
WriteArgs ==
  {<<>>} \cup {<<x>> : x \in {97, 98}} \cup {<<x, y>> : x, y \in {97, 98}}

\* limitedOutputBuffer.Write: the buffer afterwards, and the returned n, err
Write(b, p) ==
  IF b.maxBytes <= 0
  THEN [buf |-> b.buf, truncated |-> b.truncated, n |-> Len(p), err |-> NoErr]
  ELSE IF Len(b.buf) >= b.maxBytes
  THEN [buf |-> b.buf, truncated |-> TRUE, n |-> Len(p), err |-> NoErr]
  ELSE LET remaining == b.maxBytes - Len(b.buf)
       IN IF Len(p) > remaining
          THEN [buf |-> b.buf \o SubSeq(p, 1, remaining), truncated |-> TRUE,
                n |-> Len(p), err |-> NoErr]
          ELSE [buf |-> b.buf \o p, truncated |-> FALSE \/ b.truncated,
                n |-> Len(p), err |-> NoErr]

\* output := &limitedOutputBuffer{maxBytes: commandMaxOutputBytes}
InitBuffer ==
  /\ domain = "system"
  /\ CollectorAtRest
  /\ \E maxBytes \in 1..MaxOutputBytes :
       scrape = [pc |-> "run", maxBytes |-> maxBytes, buf |-> <<>>,
                 truncated |-> FALSE, written |-> <<>>, writes |-> 0,
                 p |-> <<>>, n |-> 0, err |-> NoErr]

\* the running command writes to its output
BufferWrite ==
  /\ domain = "system"
  /\ scrape.pc = "run"
  /\ scrape.writes < MaxWrites
  /\ \E p \in WriteArgs :
       LET ret == Write(scrape, p)
       IN scrape' = [scrape EXCEPT
            !.buf = ret.buf, !.truncated = ret.truncated,
            !.written = @ \o p, !.writes = @ + 1,
            !.p = p, !.n = ret.n, !.err = ret.err]
  /\ UNCHANGED collectorVars

\* command.Run() returns
BufferRunReturn ==
  /\ domain = "system"
  /\ scrape.pc = "run"
  /\ scrape' = [scrape EXCEPT !.pc = "done"]
  /\ UNCHANGED collectorVars

NextBuffer ==
  \/ BufferWrite
  \/ BufferRunReturn

BufferSpec == InitBuffer /\ [][NextBuffer]_vars

(***************************************************************************)
(* The configuration a constructor loads from the environment.  A value is *)
(* a sequence of character codes: a digit 48..57, + 43, - 45, s 115,       *)
(* m 109, h 104, x 120.  Durations are in seconds.                         *)
(***************************************************************************)

\* the number a sequence of digits stands for
RECURSIVE DigitsValue(_)
DigitsValue(digits) ==
  IF digits = <<>> THEN 0
  ELSE 10 * DigitsValue(SubSeq(digits, 1, Len(digits) - 1))
         + (digits[Len(digits)] - 48)

\* strconv.Atoi(value): parsedValue, err
ParseInt(value) ==
  IF ~Atoi(value) THEN [ok |-> FALSE, value |-> 0]
  ELSE IF value[1] = 45 THEN [ok |-> TRUE, value |-> 0 - DigitsValue(Tail(value))]
  ELSE IF value[1] = 43 THEN [ok |-> TRUE, value |-> DigitsValue(Tail(value))]
  ELSE [ok |-> TRUE, value |-> DigitsValue(value)]

\* time.ParseDuration(value) on a value of one number and one unit: an
\* optional sign, then "0", or digits followed by s, m or h
ParseDuration(value) ==
  LET signed == value # <<>> /\ value[1] \in {43, 45}
      rest == IF signed THEN Tail(value) ELSE value
      digits == SubSeq(rest, 1, Len(rest) - 1)
      unit == rest[Len(rest)]
      seconds == DigitsValue(digits)
                   * (CASE unit = 115 -> 1 [] unit = 109 -> 60 [] OTHER -> 3600)
  IN IF rest = <<48>> THEN [ok |-> TRUE, value |-> 0]
     ELSE IF \/ Len(rest) < 2
             \/ unit \notin {115, 109, 104}
             \/ \E i \in 1..Len(digits) : digits[i] \notin 48..57
     THEN [ok |-> FALSE, value |-> 0]
     ELSE [ok |-> TRUE,
           value |-> IF signed /\ value[1] = 45 THEN 0 - seconds ELSE seconds]

\* a parsed value that is not positive is returned as it is
parseIntEnv_NoSignCheck(env, key, defaultValue) ==
  IF ~env[key].exists \/ env[key].value = <<>> THEN defaultValue
  ELSE IF ~ParseInt(env[key].value).ok THEN defaultValue
  ELSE ParseInt(env[key].value).value

\* parseIntEnv: the default when the variable is unset, empty, no integer
\* or not greater than zero
parseIntEnv(env, key, defaultValue) ==
  IF ~env[key].exists \/ env[key].value = <<>> THEN defaultValue
  ELSE LET parsed == ParseInt(env[key].value)
       IN IF ~parsed.ok THEN defaultValue
          ELSE IF parsed.value <= 0 THEN defaultValue
          ELSE parsed.value

\* parseDurationEnv: the same with time.ParseDuration
parseDurationEnv(env, key, defaultValue) ==
  IF ~env[key].exists \/ env[key].value = <<>> THEN defaultValue
  ELSE LET parsed == ParseDuration(env[key].value)
       IN IF ~parsed.ok THEN defaultValue
          ELSE IF parsed.value <= 0 THEN defaultValue
          ELSE parsed.value

\* the durations and the integers of each load...CollectorConfig, with the
\* variable read and the default
ConfigFields(d) ==
  CASE d = "lldp" ->
         {<<"refreshInterval", "duration", 30>>, <<"timeout", "duration", 2>>,
          <<"maxNeighbors", "int", 512>>}
    [] d = "vlan" ->
         {<<"refreshInterval", "duration", 30>>, <<"timeout", "duration", 2>>,
          <<"maxVlans", "int", 1024>>, <<"maxMembers", "int", 8192>>}
    [] d = "lag" ->
         {<<"refreshInterval", "duration", 30>>, <<"timeout", "duration", 2>>,
          <<"maxLags", "int", 512>>, <<"maxMembers", "int", 4096>>}
    [] d = "fdb" ->
         {<<"refreshInterval", "duration", 60>>, <<"timeout", "duration", 2>>,
          <<"maxEntries", "int", 50000>>, <<"maxPorts", "int", 1024>>,
          <<"maxVlans", "int", 4096>>}
    [] d = "docker" ->
         {<<"refreshInterval", "duration", 60>>, <<"timeout", "duration", 2>>,
          <<"maxContainers", "int", 128>>,
          <<"sourceStaleThreshold", "duration", 300>>}
    [] d = "system" ->
         {<<"refreshInterval", "duration", 60>>, <<"timeout", "duration", 4>>,
          <<"commandTimeout", "duration", 2>>,
          <<"commandMaxOutputBytes", "int", 262144>>}

\* what the environment may hold for a duration: unset, "", 5s, 1m, 0s,
\* -1s, 5 without a unit; positive is the number of seconds a value stands
\* for when that is greater than zero, else 0
DurationEnvPool ==
  {[exists |-> FALSE, value |-> <<>>, positive |-> 0],
   [exists |-> TRUE, value |-> <<>>, positive |-> 0],
   [exists |-> TRUE, value |-> <<53, 115>>, positive |-> 5],
   [exists |-> TRUE, value |-> <<49, 109>>, positive |-> 60],
   [exists |-> TRUE, value |-> <<48, 115>>, positive |-> 0],
   [exists |-> TRUE, value |-> <<45, 49, 115>>, positive |-> 0],
   [exists |-> TRUE, value |-> <<53>>, positive |-> 0]}

\* what it may hold for an integer: unset, "", 7, +12, 0, -3, x1
IntEnvPool ==
  {[exists |-> FALSE, value |-> <<>>, positive |-> 0],
   [exists |-> TRUE, value |-> <<>>, positive |-> 0],
   [exists |-> TRUE, value |-> <<55>>, positive |-> 7],
   [exists |-> TRUE, value |-> <<43, 49, 50>>, positive |-> 12],
   [exists |-> TRUE, value |-> <<48>>, positive |-> 0],
   [exists |-> TRUE, value |-> <<45, 51>>, positive |-> 0],
   [exists |-> TRUE, value |-> <<120, 49>>, positive |-> 0]}

\* the field names of a collector's configuration
ConfigNames(d) == {field[1] : field \in ConfigFields(d)}

\* the process starts with some environment; a constructor is called
InitConfig ==
  /\ domain \in Domains
  /\ CollectorAtRest
  /\ \E env \in [ConfigNames(domain) ->
                   DurationEnvPool \cup IntEnvPool] :
       /\ \A field \in ConfigFields(domain) :
            env[field[1]] \in
              (IF field[2] = "duration" THEN DurationEnvPool ELSE IntEnvPool)
       /\ scrape = [pc |-> "load", env |-> env,
                    config |-> [k \in ConfigNames(domain) |-> 0],
                    ticker |-> "none"]

\* load...CollectorConfig
LoadConfig ==
  /\ scrape.pc = "load"
  /\ scrape' = [scrape EXCEPT
       !.pc = "loaded",
       !.config =
         [k \in ConfigNames(domain) |->
            LET field == CHOOSE f \in ConfigFields(domain) : f[1] = k
            IN IF field[2] = "duration"
               THEN parseDurationEnv(scrape.env, k, field[3])
               ELSE parseIntEnv(scrape.env, k, field[3])]]
  /\ UNCHANGED collectorVars

\* refreshLoop: time.NewTicker(collector.config.refreshInterval), which
\* panics on a period that is not positive
NewTicker ==
  /\ scrape.pc = "loaded"
  /\ scrape' = [scrape EXCEPT
       !.pc = "loop",
       !.ticker = IF scrape.config["refreshInterval"] <= 0 THEN "panic"
                  ELSE "ticking"]
  /\ UNCHANGED collectorVars

NextConfig ==
  \/ LoadConfig
  \/ NewTicker

ConfigSpec == InitConfig /\ [][NextConfig]_vars

(***************************************************************************)
(* Properties of the refresh cycle and of Collect.                         *)
(***************************************************************************)

\* C1 (stale on failure): no step of a refresh cycle before its commit, and
\* no step at all of a cycle whose producer returned an error, changes the
\* cached records, the skipped count, the truncated flag, the derived counts
\* or the last-refresh time; and the failed cycle returns with success = 0.
StaleOnFailure ==
  [][\A w \in Writers :
       /\ ( \/ pcW'[w] = "scrape"
            \/ pcW[w] \in {"scrape", "return", "lockwait"}
            \/ (pcW[w] \in RefreshStages /\ wl[w].err # NoErr) )
          => \A f \in DataFields \cup {"lastRefreshTime"} : cache'[f] = cache[f]
       /\ (pcW[w] \in RefreshStages /\ wl[w].err # NoErr /\ pcW'[w] \notin RefreshStages)
          => cache'["lastSuccess"] = 0]_vars

\* a cycle fails after an earlier one succeeded: the records and the refresh
\* time of the earlier cycle are still cached, success is 0
StaleAfterFailure ==
  \E w \in Writers :
    /\ pcW[w] = "unlock"
    /\ wl[w].err # NoErr
    /\ committed = 1
    /\ cache["cachedMetrics"] = 1
    /\ cache["lastRefreshTime"] > 0
    /\ cache["lastSuccess"] = 0

\* C2 (atomic visibility): while a Collect copies the fields no refresh holds
\* the write lock and every field copied so far equals the cache; the copy it
\* leaves with has all producer-filled fields from one cycle, and a success of
\* 1 only together with a refresh time.
AtomicVisibility ==
  \A r \in Readers :
    /\ pcR[r] \in {"reading", "copied"} =>
         /\ mu.writer = "none"
         /\ \A i \in 1..(rl[r].idx - 1) :
              rl[r].view[ReadOrder(domain)[i]] = cache[ReadOrder(domain)[i]]
    /\ pcR[r] \in {"copied", "emit", "sent"} =>
         /\ \A f, g \in SeqRange(CommitOrder(domain)) \cap DataFields :
              rl[r].view[f] = rl[r].view[g]
         /\ rl[r].view["lastSuccess"] = 1 => rl[r].view["lastRefreshTime"] > 0
         /\ rl[r].view["lastRefreshTime"] = 0 => rl[r].view["cachedMetrics"] = 0

\* a Collect has copied every field while a refresh is waiting to commit
ReadDuringRefresh ==
  \E r \in Readers :
    /\ pcR[r] = "copied"
    /\ pcW["loop"] = "lockwait"
    /\ rl[r].view["lastSuccess"] = 1

\* C3 (single writer): at most one refreshMetrics call is in flight; the
\* refreshLoop exists only after the constructor's refreshMetrics has
\* returned; the write lock is held by a call in flight only.
SingleWriter ==
  /\ Cardinality(InFlight) <= 1
  /\ pcW["loop"] # "off" =>
       pcW["ctor"] = "done" /\ wl["ctor"].ctx = "cancelled"
  /\ mu.writer # "none" => mu.writer \in InFlight

\* a tick has arrived while the loop's refresh is still running
SlowRefresh ==
  /\ pcW["loop"] \in {"scrape", "return"}
  /\ tickPending
  /\ wl["loop"].calls > 0

\* C4 (recovery): whatever the earlier cycles left, the last assignment of a
\* successful cycle leaves the producer's result in every field it fills,
\* success = 1 and a refresh time not before the cycle's start nor before the
\* refresh time cached so far; every cycle, failed or not, releases the lock
\* and leaves its caller ready for the next one.
Recovery ==
  [][\A w \in Writers :
       /\ (pcW[w] = "commit" /\ pcW'[w] = "unlock") =>
            /\ \A f \in SeqRange(CommitOrder(domain)) \cap DataFields :
                 cache'[f] = wl[w].out
            /\ cache'["lastSuccess"] = 1
            /\ cache'["lastRefreshTime"] >= wl[w].start
            /\ cache'["lastRefreshTime"] >= cache["lastRefreshTime"]
       /\ (pcW[w] = "unlock" /\ pcW'[w] # "unlock") =>
            /\ mu'.writer = "none"
            /\ pcW'[w] = IF w = "ctor" THEN "spawn" ELSE "wait"]_vars

\* the loop's cycle has committed after an earlier cycle failed
RecoveredAfterFailure ==
  /\ pcW["loop"] = "unlock"
  /\ wl["loop"].err = NoErr
  /\ committed = 1
  /\ cache["lastSuccess"] = 1
  /\ cache["cachedMetrics"] = 1

\* C5 as claimed (deadline): for every collector, a cycle whose deadline has
\* expired before the producer returned, or in which a source call met the
\* expired deadline, ends failed with success = 0.
DeadlineAlwaysFails ==
  \A w \in Writers :
    (pcW[w] = "unlock" /\ (wl[w].dur >= Timeout \/ wl[w].srcErr = ErrDeadline))
      => (wl[w].err # NoErr /\ cache["lastSuccess"] = 0)

\* C5 (deadline, amended): in LLDP, VLAN, LAG, FDB and Docker a cycle in which
\* a source call met the expired deadline returns that error, never enters
\* the success branch and ends with success = 0; the System collector
\* swallows every source error and never takes the error branch.
DeadlineFails ==
  \A w \in Writers :
    /\ (domain # "system" /\ wl[w].srcErr = ErrDeadline) =>
         /\ wl[w].err = ErrDeadline
         /\ pcW[w] # "commit"
         /\ pcW[w] = "unlock" => cache["lastSuccess"] = 0
    /\ domain = "system" =>
         /\ wl[w].err = NoErr
         /\ pcW[w] # "fail"
         /\ pcW[w] = "unlock" => cache["lastSuccess"] = 1

\* a cycle that met the deadline ends while an earlier cycle's records are cached
DeadlineHit ==
  \E w \in Writers :
    /\ domain # "system"
    /\ pcW[w] = "unlock"
    /\ wl[w].srcErr = ErrDeadline
    /\ committed = 1
    /\ cache["cachedMetrics"] = 1

\* C6 as claimed (health defaults): a Collect that ends while no cycle has
\* succeeded has sent the health gauges with success 0, scrape duration 0,
\* cache age 0 and skipped 0.
HealthAllDefault ==
  \A r \in Readers :
    (pcR[r] = "sent" /\ committed = 0) =>
      /\ rl[r].sent
      /\ rl[r].view["lastSuccess"] = 0
      /\ rl[r].view["lastScrapeDuration"] = 0
      /\ rl[r].age = 0
      /\ rl[r].view["lastSkippedEntries"] = 0
      /\ rl[r].view["lastEntriesSkipped"] = 0

\* C6 (health defaults, amended): every Collect sends the health gauges;
\* while no cycle has succeeded they are success 0, cache age 0, skipped 0
\* and no records (the scrape duration is that of the latest cycle).
HealthDefaults ==
  \A r \in Readers :
    /\ pcR[r] = "sent" => rl[r].sent
    /\ (pcR[r] = "sent" /\ committed = 0) =>
         /\ rl[r].view["lastSuccess"] = 0
         /\ rl[r].age = 0
         /\ rl[r].view["lastSkippedEntries"] = 0
         /\ rl[r].view["lastEntriesSkipped"] = 0
         /\ rl[r].view["cachedMetrics"] = 0

\* a Collect has ended after a failed cycle of measurable duration and before
\* any success, at a later time than the collector was constructed
HealthAfterFailure ==
  \E r \in Readers :
    /\ pcR[r] = "sent"
    /\ committed = 0
    /\ rl[r].sent
    /\ rl[r].view["lastScrapeDuration"] > 0
    /\ now = MaxTime

\* C7 (Collect is read-only): a step of a Collect call changes no field of
\* the collector and nothing of a refresh cycle (no source call is made);
\* the records a Collect leaves the lock with are the cached ones.
CollectReadOnly ==
  [][(<<pcR, rl>>' # <<pcR, rl>>) =>
       /\ cache' = cache
       /\ wl' = wl
       /\ pcW' = pcW
       /\ \A r \in Readers :
            pcR'[r] = "copied" =>
              rl'[r].view["cachedMetrics"] = cache["cachedMetrics"]]_vars

\* two Collect calls have ended with the same, non-empty records
SameRecordsTwice ==
  /\ Cardinality(Readers) >= 2
  /\ \A r \in {1, 2} :
       /\ pcR[r] = "sent"
       /\ rl[r].view["cachedMetrics"] = 1
  /\ rl[1].view = rl[2].view

\* C8 (non-blocking read): the write lock is held only in the assignment
\* stages of refreshMetrics; while a cycle is in scrapeMetrics or has not yet
\* called Lock, a Collect can take the read lock.
NonBlockingRead ==
  /\ mu.writer # "none" => pcW[mu.writer] \in LockedStages
  /\ \A w \in Writers :
       pcW[w] \in {"scrape", "return"} =>
         /\ CanRLock(mu)
         /\ \A r \in Readers :
              (pcR[r] = "idle" /\ \A q \in Readers : q < r => pcR[q] # "idle")
                => ENABLED RLock(r)

\* two Collect calls hold the read lock while a cycle is in scrapeMetrics
ReadersDuringScrape ==
  /\ Cardinality(mu.readers) >= 2
  /\ pcW["loop"] = "scrape"

CandidateNames ==
  {n \in {<<7, 1>>, <<7, 1, 0>>, <<7, 2>>} :
     \/ ConfigPrefix(domain) \o n \in scrape.dbConfig
     \/ ApplPrefix(domain) \o n \in scrape.dbAppl}

\* the candidates with fewer than cap candidates before them in string order
WithinCap ==
  {n \in CandidateNames :
     Cardinality({m \in CandidateNames : StringLess(m, n)}) < scrape.maxParents}

\* the member keys of the scan that name a parent and a member
MemberKeysOf(parents) ==
  {k \in MemberKeyPool(domain) \cap scrape.dbMember :
     \E p \in parents, e \in {<<7, 1>>, <<7, 2>>} :
       k = MemberPrefix(domain) \o p \o <<MemberSep(domain)>> \o e}

\* C10 (parent cap): when scrapeMetrics returns, the names with records are
\* exactly the first min(n, cap) of the sorted union of both namespaces, each
\* with one identity record; no config or state hash of any other name was
\* fetched; and the skipped count is the rejected keys, plus one per name
\* beyond the cap, plus the members of emitted parents beyond the member cap.
ParentCap ==
  scrape.pc = "done" =>
    LET metrics == {scrape.metrics[i] : i \in 1..Len(scrape.metrics)}
        rejected ==
          Cardinality(scrape.dbConfig \ {ConfigPrefix(domain) \o n : n \in CandidateNames})
            + Cardinality(scrape.dbAppl \ {ApplPrefix(domain) \o n : n \in CandidateNames})
            + Cardinality(scrape.dbMember \ MemberKeysOf({<<7, 1>>, <<7, 2>>}))
        beyond == Cardinality(CandidateNames \ WithinCap)
        members == Cardinality(MemberKeysOf(WithinCap))
    IN /\ {m.parent : m \in metrics} = WithinCap
       /\ \A n \in WithinCap :
            Cardinality({i \in 1..Len(scrape.metrics) :
                           scrape.metrics[i].desc = "info"
                             /\ scrape.metrics[i].parent = n}) = 1
       /\ \A n \in CandidateNames \ WithinCap :
            /\ <<"CONFIG_DB", ConfigPrefix(domain) \o n>> \notin scrape.fetched
            /\ <<"APPL_DB", ApplPrefix(domain) \o n>> \notin scrape.fetched
       /\ \A n \in WithinCap :
            /\ <<"CONFIG_DB", ConfigPrefix(domain) \o n>> \in scrape.fetched
            /\ <<"APPL_DB", ApplPrefix(domain) \o n>> \in scrape.fetched
       /\ scrape.skippedEntries =
            rejected + beyond
              + (IF members > scrape.maxMembers THEN members - scrape.maxMembers ELSE 0)

\* parents Vlan10 and Vlan2, cap 1, nothing else skipped: only Vlan10 has
\* records and skipped is 1
TwoParentsCapOne ==
  /\ scrape.pc = "done"
  /\ scrape.names = <<(<<7, 1, 0>>), (<<7, 2>>)>>
  /\ scrape.maxParents = 1
  /\ scrape.skippedEntries = 1
  /\ scrape.metrics # <<>>
  /\ \A i \in 1..Len(scrape.metrics) : scrape.metrics[i].parent = <<7, 1, 0>>

\* the member names of the scanned member keys of parent p
ChildrenOf(p) ==
  {e \in {<<7, 1>>, <<7, 2>>} :
     MemberPrefix(domain) \o p \o <<MemberSep(domain)>> \o e \in scrape.dbMember}

\* the member names of the member records of parent p
EmittedMembers(p) ==
  {scrape.metrics[i].member :
     i \in {j \in 1..Len(scrape.metrics) :
              /\ scrape.metrics[j].desc \in {"member_info", "member_status"}
              /\ scrape.metrics[j].parent = p}}

\* the first k names of a set in string order
FirstOf(set, k) ==
  {e \in set : Cardinality({f \in set : StringLess(f, e)}) < k}

\* the number of member records in the snapshot
MemberRecords ==
  Cardinality({i \in 1..Len(scrape.metrics) :
                 scrape.metrics[i].desc \in {"member_info", "member_status"}})

\* the skipped count less the rejected keys and the parents beyond the cap
SkippedMembers ==
  scrape.skippedEntries
    - Cardinality(scrape.dbConfig \ {ConfigPrefix(domain) \o n : n \in CandidateNames})
    - Cardinality(scrape.dbAppl \ {ApplPrefix(domain) \o n : n \in CandidateNames})
    - Cardinality(scrape.dbMember \ MemberKeysOf({<<7, 1>>, <<7, 2>>}))
    - Cardinality(CandidateNames \ WithinCap)

\* the larger of 0 and n
AtLeastZero(n) == IF n < 0 THEN 0 ELSE n

\* C11 as claimed (per-parent child cap): every emitted parent with n children
\* has member records for exactly its first min(n, cap) children in sorted
\* order, whatever the other parents have, and the skipped count holds the
\* children beyond the cap of their own parent.
PerParentMemberCap ==
  scrape.pc = "done" =>
    /\ \A p \in WithinCap :
         EmittedMembers(p) = FirstOf(ChildrenOf(p), scrape.maxMembers)
    /\ SkippedMembers =
         Cardinality({<<p, e>> \in WithinCap \X {<<7, 1>>, <<7, 2>>} :
                        e \in ChildrenOf(p) \ FirstOf(ChildrenOf(p), scrape.maxMembers)})

\* C11 (amended, shared child cap): the child cap bounds the member records of
\* one refresh over all parents: an emitted parent with n children has member
\* records for exactly its first min(n, r) children in sorted order, r being
\* the cap less the member records of the parents before it; the other
\* children of emitted parents are counted as skipped.
SharedMemberCap ==
  scrape.pc = "done" =>
    /\ \A p \in WithinCap :
         LET before == Cardinality(MemberKeysOf({q \in WithinCap : StringLess(q, p)}))
         IN EmittedMembers(p) =
              FirstOf(ChildrenOf(p), AtLeastZero(scrape.maxMembers - before))
    /\ SkippedMembers = Cardinality(MemberKeysOf(WithinCap)) - MemberRecords

\* Vlan1 has two children and Vlan2 one, the cap is 2: both parents are
\* emitted, Vlan1 with both children, Vlan2 with none, one child skipped
TwoParentsShareCap ==
  /\ scrape.pc = "done"
  /\ scrape.maxMembers = 2
  /\ {<<7, 1>>, <<7, 2>>} \subseteq WithinCap
  /\ EmittedMembers(<<7, 1>>) = {<<7, 1>>, <<7, 2>>}
  /\ ChildrenOf(<<7, 2>>) = {<<7, 1>>}
  /\ EmittedMembers(<<7, 2>>) = {}
  /\ SkippedMembers = 1

\* C12 (member cap per refresh): at every point of a VLAN refresh the member_info
\* records over all VLANs, and of a LAG refresh the member_status records over
\* all LAGs, number at most the member cap, and are as many as the members
\* processed.
MemberCapPerRefresh ==
  /\ MemberRecords <= scrape.maxMembers
  /\ scrape.pc \in {"walk", "done"} => MemberRecords = scrape.processedMembers
  /\ \A i \in 1..Len(scrape.metrics) :
       /\ scrape.metrics[i].desc = "member_info" => domain = "vlan"
       /\ scrape.metrics[i].desc = "member_status" => domain = "lag"

\* three children of two emitted parents and a cap of 1: one member record
MemberCapReached ==
  /\ scrape.pc = "done"
  /\ scrape.maxMembers = 1
  /\ Cardinality(MemberKeysOf(WithinCap)) = 3
  /\ MemberRecords = 1
  /\ scrape.skippedEntries >= 2

\* the positions of the records of description desc of parent p
RecordsOf(desc, p) ==
  {i \in 1..Len(scrape.metrics) :
     scrape.metrics[i].desc = desc /\ scrape.metrics[i].parent = p}

\* C13 (member count): when scrapeMetrics returns, every emitted parent has
\* exactly one members record, whose value is the number of member records of
\* that parent in the same snapshot; a parent without children has its
\* identity record and a members record of value 0.
MemberCount ==
  scrape.pc = "done" =>
    \A p \in WithinCap :
      /\ Cardinality(RecordsOf("members", p)) = 1
      /\ Cardinality(RecordsOf("info", p)) = 1
      /\ \A i \in RecordsOf("members", p) :
           /\ scrape.metrics[i].value = Cardinality(EmittedMembers(p))
           /\ scrape.metrics[i].value =
                Cardinality(RecordsOf("member_info", p) \cup RecordsOf("member_status", p))
           /\ ChildrenOf(p) = {} => scrape.metrics[i].value = 0

\* Vlan1 has two children of which the cap lets one through, Vlan10 has none:
\* the members records are 1 and 0
CountBelowScanned ==
  /\ scrape.pc = "done"
  /\ {<<7, 1>>, <<7, 1, 0>>} \subseteq WithinCap
  /\ Cardinality(ChildrenOf(<<7, 1>>)) = 2
  /\ \E i \in RecordsOf("members", <<7, 1>>) : scrape.metrics[i].value = 1
  /\ \E i \in RecordsOf("members", <<7, 1, 0>>) : scrape.metrics[i].value = 0
  /\ RecordsOf("info", <<7, 1, 0>>) # {}

\* C14 (member accounting): when scrapeMetrics returns, every scanned member
\* key has been accounted for exactly once, as a member record or as one
\* increment of the skipped count, so the member records plus the skipped
\* increments of member keys (the skipped count less the rejected parent keys
\* and the parents beyond the cap) equal the member keys scanned.
MemberAccounting ==
  scrape.pc = "done" =>
    MemberRecords
      + SkippedMembers
      + Cardinality(scrape.dbMember \ MemberKeysOf({<<7, 1>>, <<7, 2>>}))
      = Cardinality(scrape.dbMember)

\* C15 (LLDP accounting): when scrapeMetrics returns, whatever
\* LLDP_INCLUDE_MGMT and LLDP_MAX_NEIGHBORS are, every scanned key has produced
\* one neighbor_info record or one increment of the skipped count: the
\* neighbors plus the skipped count are the number of keys scanned.
LldpAccounting ==
  (domain = "lldp" /\ scrape.pc = "done") =>
    /\ scrape.neighbors = Len(scrape.metrics)
    /\ scrape.neighbors + scrape.skippedEntries = Len(scrape.keys)

\* C16 (Docker accounting): when scrapeMetrics returns, whatever
\* DOCKER_MAX_CONTAINERS is and whatever the fields of the entries hold, every
\* container key (the LastUpdateTime key is none) has been accounted for once,
\* as an exported container or as one increment of the skipped count: the
\* containers plus the skipped count are the number of container keys scanned.
DockerAccounting ==
  (domain = "docker" /\ scrape.pc = "done") =>
    /\ scrape.containerCount =
         Cardinality({i \in 1..Len(scrape.metrics) :
                        scrape.metrics[i].desc = "container_info"})
    /\ scrape.containerCount + scrape.skippedEntries =
         Cardinality(SeqRange(scrape.keys) \ {LastUpdateKey})

\* the skipped increments of the two map builders
MapSkips ==
  bvidToVlanMap(scrape.dbVlanObjects).skippedEntries + scrape.bridgeSkippedEntries

\* the number of records of description desc
RecordCount(desc) ==
  Cardinality({i \in 1..Len(scrape.metrics) : scrape.metrics[i].desc = desc})

\* the skipped increments of the series caps
SeriesSkips ==
  IF scrape.pc = "done"
  THEN (Cardinality(DOMAIN scrape.entriesByVLAN) - RecordCount("entries_by_vlan"))
         + (Cardinality(DOMAIN scrape.entriesByPort) - RecordCount("entries_by_port"))
  ELSE 0

\* the skipped increments caused by FDB entry keys
EntrySkips == scrape.skippedEntries - MapSkips - SeriesSkips

\* the positions in sorted order of the keys that are counted as entries:
\* below the entry cap, decodable, with a MAC and with fields
CountedKeys ==
  {i \in 1..Len(scrape.keys) :
     /\ i <= scrape.maxEntries
     /\ parseFDBKey(scrape.keys[i]).ok
     /\ scrape.db[scrape.keys[i]] # "none"}

\* C17 (FDB entry accounting): every FDB entry key the loop has passed is
\* counted once, in the total or in the skipped count; when the loop is left,
\* with or without truncation, the total is the number of decodable keys with
\* a MAC and fields below index FDB_MAX_ENTRIES, and the total plus the
\* skipped increments of FDB entry keys is the number of keys scanned.
FdbEntryAccounting ==
  /\ scrape.pc = "walk" => EntrySkips + scrape.entriesTotal = scrape.idx
  /\ scrape.pc \in {"emit", "done"} =>
       /\ scrape.entriesTotal = Cardinality(CountedKeys)
       /\ EntrySkips + scrape.entriesTotal = Len(scrape.keys)
  /\ scrape.pc = "done" =>
       /\ scrape.metrics[1].desc = "entries"
       /\ scrape.metrics[1].value = scrape.entriesTotal

\* four keys and a cap of 2: one of the first two is counted, the other and
\* the two beyond the cap are skipped
TruncatedWithSkips ==
  /\ scrape.pc = "done"
  /\ scrape.truncated = 1
  /\ scrape.maxEntries = 2
  /\ Len(scrape.keys) = 4
  /\ scrape.entriesTotal = 1
  /\ EntrySkips = 3

\* C18 (FDB truncation): when the key loop is left the truncated flag is 1
\* exactly if more keys were scanned than FDB_MAX_ENTRIES; once it is raised
\* the loop takes no further step, so it is raised once and nothing is fetched
\* or counted afterwards; only keys below index FDB_MAX_ENTRIES are ever
\* fetched and the total never exceeds FDB_MAX_ENTRIES.
FdbTruncation ==
  /\ scrape.truncated \in {0, 1}
  /\ scrape.pc \in {"emit", "done"} =>
       (scrape.truncated = 1 <=> Len(scrape.keys) > scrape.maxEntries)
  /\ scrape.truncated = 1 =>
       /\ scrape.pc \in {"emit", "done"}
       /\ ~ENABLED FdbWalkKey
       /\ ~ENABLED FdbScrapeFail
  /\ scrape.fetched \subseteq
       {scrape.keys[i] : i \in {j \in 1..Len(scrape.keys) : j <= scrape.maxEntries}}
  /\ scrape.entriesTotal <= scrape.maxEntries
  /\ scrape.pc = "done" => scrape.metrics[1].value <= scrape.maxEntries

\* one key more than the cap, every key below the cap counted: the flag is
\* raised and the total is the cap
TruncatedAtCap ==
  /\ scrape.pc = "done"
  /\ scrape.truncated = 1
  /\ Len(scrape.keys) = scrape.maxEntries + 1
  /\ scrape.entriesTotal = scrape.maxEntries
  /\ Cardinality(scrape.fetched) = scrape.maxEntries

\* the labels of the records of description desc
LabelsOf(desc) ==
  {scrape.metrics[i].label :
     i \in {j \in 1..Len(scrape.metrics) : scrape.metrics[j].desc = desc}}

\* C19 (FDB series caps): a returned snapshot has at most FDB_MAX_VLANS
\* entries_by_vlan records and at most FDB_MAX_PORTS entries_by_port records,
\* one per label; the labels kept are the smallest in string order of those
\* counted; the skipped count grows by one per label dropped; each cap decides
\* by its own value only, and the entries_by_type records are never capped.
FdbSeriesCaps ==
  scrape.pc = "done" =>
    LET vlans == DOMAIN scrape.entriesByVLAN
        ports == DOMAIN scrape.entriesByPort
    IN /\ RecordCount("entries_by_vlan") <= scrape.maxVlans
       /\ RecordCount("entries_by_port") <= scrape.maxPorts
       /\ RecordCount("entries_by_vlan") = Cardinality(LabelsOf("entries_by_vlan"))
       /\ RecordCount("entries_by_port") = Cardinality(LabelsOf("entries_by_port"))
       /\ LabelsOf("entries_by_vlan") = FirstOf(vlans, scrape.maxVlans)
       /\ LabelsOf("entries_by_port") = FirstOf(ports, scrape.maxPorts)
       /\ LabelsOf("entries_by_type") = DOMAIN scrape.entriesByType
       /\ scrape.skippedEntries =
            MapSkips + (Len(scrape.keys) - scrape.entriesTotal)
              + AtLeastZero(Cardinality(vlans) - scrape.maxVlans)
              + AtLeastZero(Cardinality(ports) - scrape.maxPorts)

\* entries of VLAN 10 and of VLAN 20 on two ports, a VLAN cap of 1 and a
\* port cap of 2: only the series of VLAN 10 is kept, both port series are,
\* and the dropped series is the one skip
VlanSeriesDropped ==
  /\ scrape.pc = "done"
  /\ scrape.maxVlans = 1
  /\ scrape.maxPorts = 2
  /\ DOMAIN scrape.entriesByVLAN = {<<1, 0>>, <<2, 0>>}
  /\ LabelsOf("entries_by_vlan") = {<<1, 0>>}
  /\ Cardinality(LabelsOf("entries_by_port")) = 2
  /\ scrape.skippedEntries = 1

\* the VLAN label the resolution order gives the entry of a key: the VLAN of
\* the key (blanks around it removed) when there is one, otherwise the VLAN id
\* of the VLAN object the key's bvid names, otherwise "unknown"
ExpectedVlan(key) ==
  LET embedded == TrimSpace(parseFDBKey(key).Vlan)
      object == VlanObjectPrefix \o TrimSpace(parseFDBKey(key).Bvid)
      viaObject == IF object \in scrape.dbVlanObjects
                   THEN TrimSpace(VlanObjectId(object)) ELSE <<>>
  IN IF embedded # <<>> THEN embedded
     ELSE IF viaObject # <<>> THEN viaObject
     ELSE Unknown

\* C20 (FDB VLAN resolution order): when the key loop is left, the count of
\* every VLAN label is the number of counted entries whose key resolves to it
\* in the order embedded VLAN, VLAN object of the bvid, "unknown"; the
\* unknown-VLAN counter is the number of counted entries for which both are
\* empty, so an entry with embedded VLAN 10 and an entry without one whose
\* bvid maps to 20 count under 10 and 20 and not as unknown.
FdbVlanResolution ==
  scrape.pc \in {"emit", "done"} =>
    /\ \A label \in {<<1, 0>>, <<2, 0>>, Unknown} \cup DOMAIN scrape.entriesByVLAN :
         (IF label \in DOMAIN scrape.entriesByVLAN
          THEN scrape.entriesByVLAN[label] ELSE 0)
           = Cardinality({i \in CountedKeys : ExpectedVlan(scrape.keys[i]) = label})
    /\ scrape.unknownVLANEntries =
         Cardinality({i \in CountedKeys : ExpectedVlan(scrape.keys[i]) = Unknown})

\* the entry with embedded VLAN 10 (its bvid maps to 20) and the entry
\* without embedded VLAN whose bvid maps to 20 are both counted: one entry
\* under 10, one under 20, none unknown
EmbeddedAndMapped ==
  /\ scrape.pc = "done"
  /\ scrape.keys = <<FdbPrefix \o <<1, 0, 8, 13, 1, 8, 0, 1>>,
                     FdbPrefix \o <<8, 13, 1, 8, 0, 2>>>>
  /\ VlanObjectPrefix \o <<13, 1>> \in scrape.dbVlanObjects
  /\ scrape.entriesTotal = 2
  /\ scrape.entriesByVLAN[<<1, 0>>] = 1
  /\ scrape.entriesByVLAN[<<2, 0>>] = 1
  /\ scrape.unknownVLANEntries = 0

\* the port label the bridge-port objects and the name tables of the store
\* give the entry of a key, "unknown" when one of the links is missing
ExpectedPort(key) ==
  LET bridgePort == BridgePortPrefix
                      \o MapGet(FdbHash(key, scrape.db[key]),
                                "SAI_FDB_ENTRY_ATTR_BRIDGE_PORT_ID")
      names == {p[1] : p \in {q \in scrape.dbPortNames \cup scrape.dbLagNames :
                                q[2] = BridgePortPortId(bridgePort)}}
  IN IF bridgePort \in scrape.dbBridgePorts /\ names # {}
     THEN CHOOSE name \in names : TRUE
     ELSE Unknown

\* the count a map holds for a label
CountOf(map, label) == IF label \in DOMAIN map THEN map[label] ELSE 0

\* C21 (unknown labels are not skips): a step of the key loop over a
\* decodable key with a MAC and fields counts the entry whatever its labels;
\* a step that counts an entry leaves the skipped count alone, adds one to the
\* unknown-VLAN counter and to the by-VLAN count of "unknown" exactly when the
\* VLAN cannot be resolved, and adds one to the by-port count of "unknown",
\* and nothing to the unknown-VLAN counter, when only the port cannot be.
UnknownNotSkipped ==
  [][(scrape.pc = "walk" /\ scrape'.pc = "walk" /\ scrape'.idx = scrape.idx + 1) =>
       LET key == scrape.keys[scrape.idx + 1]
           counted == scrape'.entriesTotal = scrape.entriesTotal + 1
       IN /\ (parseFDBKey(key).ok /\ scrape.db[key] # "none") => counted
          /\ counted =>
               /\ scrape'.skippedEntries = scrape.skippedEntries
               /\ scrape'.unknownVLANEntries =
                    scrape.unknownVLANEntries
                      + (IF ExpectedVlan(key) = Unknown THEN 1 ELSE 0)
               /\ CountOf(scrape'.entriesByVLAN, Unknown) =
                    CountOf(scrape.entriesByVLAN, Unknown)
                      + (IF ExpectedVlan(key) = Unknown THEN 1 ELSE 0)
               /\ CountOf(scrape'.entriesByPort, Unknown) =
                    CountOf(scrape.entriesByPort, Unknown)
                      + (IF ExpectedPort(key) = Unknown THEN 1 ELSE 0)]_vars

\* one entry with neither VLAN nor port resolved and one with the VLAN but not
\* the port: both are counted, one is unknown-VLAN, nothing is skipped
UnknownCounted ==
  /\ scrape.pc = "done"
  /\ scrape.entriesTotal = 2
  /\ scrape.unknownVLANEntries = 1
  /\ CountOf(scrape.entriesByVLAN, Unknown) = 1
  /\ CountOf(scrape.entriesByPort, Unknown) = 2
  /\ scrape.maxVlans = 2
  /\ scrape.skippedEntries = 0

\* C22 (bridge-port accounting): once the bridge-port map is built, every
\* scanned bridge-port object has given a mapping from its id to a port or LAG
\* name or exactly one skip, so the mappings plus the skips of the builder are
\* the objects scanned; and the builder has not failed the cycle.
BridgePortAccounting ==
  scrape.pc \in {"scan", "walk", "emit", "done"} =>
    /\ scrape.err = NoErr
    /\ Cardinality(DOMAIN scrape.bridgePortToPort) + scrape.bridgeSkippedEntries
         = Cardinality(scrape.dbBridgePorts)

\* C23 (determinism): two refresh cycles over the same store and the same
\* configuration return the same records in the same order with the same
\* label values, the same skipped count and the same truncated flag; this
\* includes the port labels when the port name table holds several names at
\* one object id.
Determinism ==
  (domain = "fdb" /\ scrape.pc = "done" /\ scrape.cycle = 2) =>
    /\ scrape.metrics = scrape.cachedMetrics
    /\ scrape.skippedEntries = scrape.lastSkippedEntries
    /\ scrape.truncated = scrape.lastTruncated

\* the largest number of records the caps of the domain allow: three records
\* and a members record for each parent and one for each member; one for each
\* neighbor; an identity and nine figures for each container; the two totals,
\* one series for each VLAN and port label kept and one for each entry counted
RecordBound ==
  CASE domain \in {"vlan", "lag"} -> 4 * scrape.maxParents + scrape.maxMembers
    [] domain = "lldp" -> scrape.maxNeighbors
    [] domain = "docker" -> 10 * scrape.maxContainers
    [] domain = "fdb" -> 2 + scrape.maxVlans + scrape.maxPorts + scrape.maxEntries

\* C24 (bounded record count): in every domain the number of records a
\* refresh returns is at most a bound fixed by the caps of the domain,
\* whatever the store holds; in FDB the entry-type series are at most as many
\* as the entry cap.
BoundedRecords ==
  /\ Len(scrape.metrics) <= RecordBound
  /\ (domain = "fdb" /\ scrape.pc = "done") =>
       RecordCount("entries_by_type") <= scrape.maxEntries

\* an FDB refresh over more entries, of more types, than the entry cap
\* returns as many records as the caps allow
RecordsAtBound ==
  /\ domain = "fdb"
  /\ scrape.pc = "done"
  /\ scrape.truncated = 1
  /\ Cardinality(DOMAIN scrape.db) > scrape.maxEntries
  /\ RecordCount("entries_by_type") = scrape.maxEntries
  /\ Len(scrape.metrics) = RecordBound

\* the loop is at a malformed key or at an entry over a cap: a position the
\* code passes without reaching the store
SkipOnlyStep ==
  CASE domain \in {"vlan", "lag"} ->
         \/ scrape.pc = "names"
         \/ /\ scrape.pc = "members"
            /\ \A k \in scrape.memberKeys : BadMemberKey(domain, k)
         \/ /\ scrape.pc = "walk"
            /\ scrape.idx <= Len(scrape.names)
            /\ scrape.processedParents >= scrape.maxParents
    [] domain = "lldp" ->
         /\ scrape.pc = "walk"
         /\ scrape.idx <= Len(scrape.keys)
         /\ \/ scrape.neighbors >= scrape.maxNeighbors
            \/ scrape.keys[scrape.idx] \in scrape.dbBad
    [] domain = "docker" ->
         /\ scrape.pc = "walk"
         /\ scrape.idx <= Len(scrape.keys)
         /\ scrape.keys[scrape.idx] # LastUpdateKey
         /\ scrape.containerCount >= scrape.maxContainers
    [] domain = "fdb" ->
         /\ scrape.pc = "walk"
         /\ scrape.idx < Len(scrape.keys)
         /\ \/ scrape.idx >= scrape.maxEntries
            \/ scrape.keys[scrape.idx + 1] \in scrape.dbBad

\* the loop is at a well-formed key under the cap whose hash lacks what a
\* record needs
MissingFieldsStep ==
  /\ ~SkipOnlyStep
  /\ scrape.pc = "walk"
  /\ CASE domain = "lldp" ->
            /\ scrape.idx <= Len(scrape.keys)
            /\ ~MgmtExcluded(scrape.includeMgmt,
                             TrimPrefix(scrape.keys[scrape.idx], LldpPrefix))
            /\ scrape.db[scrape.keys[scrape.idx]] \in {"none", "subtype"}
       [] domain = "docker" ->
            /\ scrape.idx <= Len(scrape.keys)
            /\ scrape.keys[scrape.idx] # LastUpdateKey
            /\ scrape.db[scrape.keys[scrape.idx]] \in {"none", "noname"}
       [] domain = "fdb" ->
            /\ scrape.idx < Len(scrape.keys)
            /\ scrape.db[scrape.keys[scrape.idx + 1]] = "none"
       [] OTHER -> FALSE

\* C25 (error propagation): a step at a malformed key or at an over-cap
\* entry never fails the cycle, leaves the records alone and never lowers the
\* skipped count; a key whose hash lacks the required fields, once fetched,
\* adds one to the skipped count and no record; a cycle fails exactly when a
\* client creation, a scan or a fetch returned an error, and the failed cycle
\* returns no record and no skipped count.
ErrorPropagation ==
  [][/\ SkipOnlyStep =>
          /\ scrape'.pc # "failed"
          /\ scrape'.metrics = scrape.metrics
          /\ scrape'.skippedEntries >= scrape.skippedEntries
     /\ (MissingFieldsStep /\ scrape'.pc # "failed") =>
          /\ scrape'.metrics = scrape.metrics
          /\ scrape'.skippedEntries = scrape.skippedEntries + 1
     /\ scrape'.pc = "failed" <=> scrape'.err # NoErr
     /\ scrape'.pc = "failed" =>
          /\ scrape'.metrics = <<>>
          /\ scrape'.skippedEntries = 0]_vars

\* an LLDP cycle that met a malformed key and an entry without fields returned
\* records and no error
SkippedWithoutFailure ==
  /\ domain = "lldp"
  /\ scrape.pc = "done"
  /\ scrape.err = NoErr
  /\ scrape.dbBad # {}
  /\ \E k \in DOMAIN scrape.db : scrape.db[k] = "none"
  /\ scrape.skippedEntries >= 2
  /\ scrape.metrics # <<>>

\* C26 (status conversion): statusToGauge returns 1 when its input is one of
\* up, enabled, selected, active, true, ok in any mix of capital and small
\* letters with blanks around it, and 0 for every other input; "SELECTED"
\* gives 1 and the empty string gives 0.
StatusConversion ==
  (domain = "status" /\ scrape.pc = "done") =>
    /\ scrape.value = 1 <=>
         scrape.word \in {<<117, 112>>, <<101, 110, 97, 98, 108, 101, 100>>,
                          <<115, 101, 108, 101, 99, 116, 101, 100>>,
                          <<97, 99, 116, 105, 118, 101>>,
                          <<116, 114, 117, 101>>, <<111, 107>>}
    /\ scrape.value \in {0, 1}
    /\ scrape.status = <<83, 69, 76, 69, 67, 84, 69, 68>> => scrape.value = 1
    /\ scrape.status = <<>> => scrape.value = 0

\* statusToGauge has returned 1 for "SELECTED" followed by a blank
SelectedInCapitals ==
  /\ domain = "status"
  /\ scrape.pc = "done"
  /\ scrape.status = <<83, 69, 76, 69, 67, 84, 69, 68, 9>>
  /\ scrape.value = 1

\* C27 (disabled collector): a collector whose enabled flag is false never
\* runs a refresh cycle, never starts its refresh loop and sends nothing from
\* Collect, neither records nor health gauges; and a registered optional
\* collector is an enabled one.
DisabledCollector ==
  domain \in OptionalDomains =>
    /\ ~scrape.config.enabled =>
         /\ scrape.refreshes = 0
         /\ scrape.loop = "off"
         /\ scrape.cachedMetrics = <<>>
         /\ scrape.sent = <<>>
    /\ scrape.registered => scrape.config.enabled

\* Collect has been called on a disabled collector that main did not register
DisabledCollected ==
  /\ domain \in OptionalDomains
  /\ ~scrape.config.enabled
  /\ scrape.pc = "serving"
  /\ ~scrape.registered
  /\ scrape.collects > 0

\* a Collect of caller c has finished
Finished(c) == scrape.pc[c] = "idle" /\ scrape.collects[c] > 0

\* C28 (on-demand mode): a Collect that finds the cache younger than 15
\* seconds sends it without a refresh; one that finds it older refreshes
\* once, under the mutex, before it sends; between two refreshes at least 15
\* seconds pass, so Collect calls that arrive together while the cache is
\* stale cause one refresh, and the others send what that refresh produced.
OnDemandRefresh ==
  /\ \A c \in Callers :
       /\ scrape.pc[c] \in {"scrape", "emit"} => scrape.mu = c
       /\ (scrape.pc[c] = "emit" \/ Finished(c)) =>
            (scrape.call[c].scraped <=>
               scrape.call[c].lockTime - scrape.call[c].lastAtLock >= 15)
       /\ Finished(c) =>
            scrape.call[c].sentVersion =
              scrape.call[c].versionAtLock + (IF scrape.call[c].scraped THEN 1 ELSE 0)
  /\ \A i \in 1..(Len(scrape.refreshTimes) - 1) :
       scrape.refreshTimes[i + 1] - scrape.refreshTimes[i] >= 15
  /\ Len(scrape.refreshTimes) = scrape.version
  /\ \A c, d \in Callers :
       (c # d /\ Finished(c) /\ Finished(d)
          /\ scrape.call[c].arrived = scrape.call[d].arrived
          /\ scrape.call[c].scraped /\ scrape.call[c].lockTime = scrape.call[d].lockTime) =>
         /\ ~scrape.call[d].scraped
         /\ scrape.call[d].sentVersion = scrape.call[c].sentVersion

\* two Collect calls arrived together at a stale cache: one refreshed, the
\* other sent the cache of that refresh
StampedeCollapsed ==
  /\ domain = "queue"
  /\ Finished(1) /\ Finished(2)
  /\ scrape.call[1].arrived = scrape.call[2].arrived
  /\ scrape.call[1].scraped
  /\ ~scrape.call[2].scraped
  /\ scrape.call[2].versionAtLock = scrape.call[1].sentVersion
  /\ scrape.call[2].sent = scrape.call[1].sent

\* the three command strings: show platform summary --json, show version,
\* show platform syseeprom
ThreeCommands == {<<1, 0, 2, 0, 3, 0, 4>>, <<1, 0, 5>>, <<1, 0, 2, 0, 6>>}

\* C29 (command allowlist): a process is started only for an argument list
\* whose joined string is one of the three command strings; any other list
\* returns an error and starts nothing; and a System refresh with
\* SYSTEM_COMMAND_ENABLED false starts no process at all.
CommandAllowlist ==
  domain \in {"system", "command"} =>
    /\ \A i \in 1..Len(scrape.executed) : Join(scrape.executed[i]) \in ThreeCommands
    /\ (domain = "command" /\ scrape.pc = "returned") =>
         /\ Join(scrape.args) \notin ThreeCommands =>
              scrape.err /\ scrape.executed = <<>>
         /\ Join(scrape.args) \in ThreeCommands => scrape.executed = <<scrape.args>>
    /\ (domain = "system" /\ ~scrape.commandEnabled) => scrape.executed = <<>>

\* runAllowedCommand has refused "show version reboot" and started nothing
CommandRefused ==
  /\ domain = "command"
  /\ scrape.pc = "returned"
  /\ scrape.args = <<(<<1>>), (<<5>>), (<<7>>)>>
  /\ scrape.err
  /\ scrape.executed = <<>>

\* the place of a source in the documented order: Redis, files, commands
SourceRank(source) ==
  IF source \in {"redis.device_metadata", "redis.chassis_info"} THEN 1
  ELSE IF source \in {"file.sonic_version", "file.machine_conf", "file.hostname"}
  THEN 2 ELSE 3

\* C30 (System source priority): the sources are consulted in the order
\* Redis, files, commands, the commands only if they are enabled; a field
\* that holds a value is not changed by a later source; and show platform
\* syseeprom is consulted only if serial, model or revision is still empty.
SourcePriority ==
  [][domain = "system" =>
       /\ \A f \in SystemFields :
            (scrape.metadata[f] # <<>> /\ scrape.pc \in 1..8) =>
              scrape'.metadata[f] = scrape.metadata[f]
       /\ \A i, j \in 1..Len(scrape'.consulted) :
            i < j => /\ SourceRank(scrape'.consulted[i]) <= SourceRank(scrape'.consulted[j])
                     /\ scrape'.consulted[i] # scrape'.consulted[j]
       /\ ~scrape.commandEnabled =>
            \A i \in 1..Len(scrape'.consulted) : SourceRank(scrape'.consulted[i]) < 3
       /\ (scrape'.consulted # scrape.consulted
             /\ scrape'.consulted[Len(scrape'.consulted)] = "cmd.show_platform_syseeprom") =>
            \E f \in {"serial", "model", "revision"} : scrape.metadata[f] = <<>>]_vars

\* the platform came from Redis, show version offered another one, which was
\* ignored, and show platform syseeprom was consulted
FallbackIgnored ==
  /\ domain = "system"
  /\ scrape.metadata["platform"] = <<49>>
  /\ "platform" \in scrape.ignored
  /\ Len(scrape.consulted) = 8
  /\ scrape.consulted[8] = "cmd.show_platform_syseeprom"

\* the value "unknown"
UnknownValue == <<117, 110, 107, 110, 111, 119, 110>>

\* the spellings that stand for no value: empty, n/a, na, null
NoValue(value) ==
  \/ value = <<>>
  \/ ToLower(value) \in {<<110, 47, 97>>, <<110, 97>>, <<110, 117, 108, 108>>}

\* C31: a System refresh cycle never fails: it commits exactly one identity
\* record, one software record and one uptime record and sets success to 1;
\* no label is empty, n/a, na or null, a label no source supplied is
\* "unknown", asic_count is "unknown" unless it parses as an integer, and
\* the uptime is never negative
SystemNeverFails ==
  /\ scrape.pc >= 10 => ~scrape.err
  /\ scrape.pc = 11 =>
       /\ scrape.lastSuccess = 1
       /\ Len(scrape.cachedMetrics) = 3
       /\ scrape.cachedMetrics[1].desc = "system_identity_info"
       /\ scrape.cachedMetrics[2].desc = "system_software_info"
       /\ scrape.cachedMetrics[3].desc = "system_uptime_seconds"
       /\ scrape.cachedMetrics[3].value >= 0
       /\ \A i \in 1..2 :
            \A f \in DOMAIN scrape.cachedMetrics[i].labels :
              LET label == scrape.cachedMetrics[i].labels[f]
                  supplied == normalizeSystemValue(scrape.loaded[f])
              IN /\ ~NoValue(label)
                 /\ supplied = <<>> => label = UnknownValue
                 /\ f = "asic_count" =>
                      IF Atoi(supplied) THEN label = supplied
                      ELSE label = UnknownValue
                 /\ f \notin {"asic", "asic_count"} /\ supplied # <<>> =>
                      label = supplied
       /\ DOMAIN scrape.cachedMetrics[1].labels
            \cup DOMAIN scrape.cachedMetrics[2].labels = DOMAIN scrape.loaded

\* a committed cycle in which no source gave a hostname, the asic_count was
\* "2x" and the uptime file held a negative number
SystemCommittedUnknown ==
  /\ scrape.pc = 11
  /\ "asic_count" \in DOMAIN scrape.loaded
  /\ scrape.loaded["hostname"] = <<>>
  /\ scrape.loaded["asic_count"] = <<50, 120>>
  /\ scrape.cachedMetrics[1].labels["asic_count"] = UnknownValue
  /\ scrape.cachedMetrics[3].value = 0

\* the positions of the container_info records
ContainerInfos ==
  {i \in 1..Len(scrape.metrics) : scrape.metrics[i].desc = "container_info"}

\* C32: in every successful Docker cycle the containers gauge and the
\* number of container_info records never exceed DOCKER_MAX_CONTAINERS; the
\* container keys are taken in sorted order; and every container key met
\* after the cap has been reached adds exactly one to entries_skipped and
\* is not fetched
DockerContainerCapStep ==
  domain = "docker" =>
    /\ scrape'.pc = "done" =>
         /\ scrape'.containerCount <= scrape'.maxContainers
         /\ Cardinality(ContainerInfos') <= scrape'.maxContainers
         /\ Cardinality(ContainerInfos') = scrape'.containerCount
         /\ \A i, j \in ContainerInfos' :
              i < j => StringLess(scrape'.metrics[i].container,
                                  scrape'.metrics[j].container)
    /\ scrape'.pc = "walk" =>
         /\ \A i, j \in 1..Len(scrape'.keys) :
              i < j => StringLess(scrape'.keys[i], scrape'.keys[j])
         /\ scrape.pc = "walk" => scrape'.idx = scrape.idx + 1
    /\ ( /\ scrape.pc = "walk"
         /\ scrape.idx <= Len(scrape.keys)
         /\ scrape.keys[scrape.idx] # LastUpdateKey
         /\ scrape.containerCount >= scrape.maxContainers ) =>
         /\ scrape'.pc = "walk"
         /\ scrape'.skippedEntries = scrape.skippedEntries + 1
         /\ scrape'.fetched = scrape.fetched
         /\ scrape'.metrics = scrape.metrics
         /\ scrape'.containerCount = scrape.containerCount

DockerContainerCap == [][DockerContainerCapStep]_vars

\* a successful cycle that exported as many containers as the cap allows
\* and left a later container key unfetched
ContainerCapReached ==
  /\ domain = "docker"
  /\ scrape.pc = "done"
  /\ scrape.containerCount = scrape.maxContainers
  /\ scrape.skippedEntries >= 1
  /\ \E i \in 1..Len(scrape.keys) :
       /\ scrape.keys[i] # LastUpdateKey
       /\ scrape.keys[i] \notin scrape.fetched
       /\ \A j \in 1..(i - 1) : scrape.keys[j] \in scrape.fetched \cup {LastUpdateKey}

\* C33: in every successful LLDP cycle the neighbors gauge equals the
\* number of neighbor_info records and never exceeds LLDP_MAX_NEIGHBORS; the
\* records follow the sorted order of the LLDP keys; and when
\* LLDP_INCLUDE_MGMT is false no record with local_interface eth0 is emitted
LldpNeighborCap ==
  domain = "lldp" =>
    /\ scrape.pc = "done" =>
         /\ scrape.neighbors = Len(scrape.metrics)
         /\ \A i \in 1..Len(scrape.metrics) :
              scrape.metrics[i].desc = "neighbor_info"
         /\ scrape.neighbors <= scrape.maxNeighbors
         /\ \A i, j \in 1..Len(scrape.keys) :
              i < j => StringLess(scrape.keys[i], scrape.keys[j])
         /\ \A i, j \in 1..Len(scrape.metrics) :
              i < j => StringLess(LldpPrefix \o scrape.metrics[i].local_interface,
                                  LldpPrefix \o scrape.metrics[j].local_interface)
         /\ \A i \in 1..Len(scrape.metrics) :
              LldpPrefix \o scrape.metrics[i].local_interface
                \in SeqRange(scrape.keys)
    /\ ~scrape.includeMgmt =>
         \A i \in 1..Len(scrape.metrics) :
           scrape.metrics[i].local_interface # MgmtInterface

\* a successful cycle below the cap in which the entry of eth0, with every
\* field set, was left out because LLDP_INCLUDE_MGMT is false
MgmtNeighborLeftOut ==
  /\ domain = "lldp"
  /\ scrape.pc = "done"
  /\ ~scrape.includeMgmt
  /\ scrape.neighbors >= 1
  /\ scrape.neighbors < scrape.maxNeighbors
  /\ (LldpPrefix \o MgmtInterface) \in DOMAIN scrape.db
  /\ scrape.db[LldpPrefix \o MgmtInterface] = "full"
  /\ (LldpPrefix \o MgmtInterface) \notin scrape.fetched

\* C34: the scrape-duration gauge always holds the duration of the most
\* recently completed refresh cycle, whether it succeeded or failed, whereas
\* the last-refresh time is advanced only by a successful cycle and is never
\* moved backwards or reset by a failed one
HealthBookkeepingStep ==
  /\ \A w \in Writers :
       pcW[w] = "unlock" /\ pcW'[w] # "unlock" =>
         cache["lastScrapeDuration"] = wl[w].dur
  /\ cache'["lastScrapeDuration"] # cache["lastScrapeDuration"] =>
       \E w \in Writers :
         /\ pcW[w] = "locked"
         /\ mu.writer = w
         /\ cache'["lastScrapeDuration"] = wl[w].dur
  /\ cache'["lastRefreshTime"] # cache["lastRefreshTime"] =>
       /\ cache'["lastRefreshTime"] > cache["lastRefreshTime"]
       /\ \E w \in Writers :
            /\ pcW[w] = "commit"
            /\ wl[w].err = NoErr
            /\ cache["lastSuccess"] = 1
  /\ \A w \in Writers :
       pcW[w] = "commit" /\ pcW'[w] = "unlock" =>
         /\ cache'["lastRefreshTime"] = now'
         /\ cache'["lastRefreshTime"] >= wl[w].start

HealthBookkeeping == [][HealthBookkeepingStep]_vars

\* a failed cycle is about to return after a successful one: the duration is
\* that of the failed cycle, the time of the last refresh is still set
FailedAfterSuccess ==
  /\ pcW["loop"] = "unlock"
  /\ wl["loop"].err # NoErr
  /\ wl["loop"].dur > 0
  /\ cache["lastSuccess"] = 0
  /\ cache["lastRefreshTime"] > 0
  /\ cache["lastScrapeDuration"] = wl["loop"].dur

\* C35: resolvedRemotePortDisplay returns the port description when it is
\* not empty and the port-id subtype, trimmed and in small letters, is one of
\* 7, local, 3, mac; otherwise the port id when that is not empty; otherwise
\* the port description.  An entry whose system name, port id, port
\* description, chassis id and management address are all empty is skipped.
RemotePortDisplay ==
  (domain = "lldp" /\ scrape.pc \in {"check", "done"}) =>
    LET id == HashField(scrape.lldpData, "lldp_rem_port_id")
        desc == HashField(scrape.lldpData, "lldp_rem_port_desc")
        described == scrape.word \in {<<55>>, <<108, 111, 99, 97, 108>>,
                                      <<51>>, <<109, 97, 99>>}
    IN /\ desc # <<>> /\ described => scrape.remotePortDisplay = desc
       /\ ~(desc # <<>> /\ described) /\ id # <<>> =>
            scrape.remotePortDisplay = id
       /\ ~(desc # <<>> /\ described) /\ id = <<>> =>
            scrape.remotePortDisplay = desc
       /\ scrape.pc = "done" =>
            /\ DOMAIN scrape.lldpData = {"lldp_rem_port_id_subtype"} =>
                 scrape.skipped /\ ~scrape.emitted
            /\ scrape.skipped # scrape.emitted

\* the subtype " LOCAL" selected the description although there is a port id
DescriptionChosen ==
  /\ domain = "lldp"
  /\ scrape.pc = "done"
  /\ scrape.lldpData["lldp_rem_port_id_subtype"] = <<9, 76, 79, 67, 65, 76>>
  /\ "lldp_rem_port_id" \in DOMAIN scrape.lldpData
  /\ scrape.remotePortDisplay = <<117, 112>>
  /\ scrape.emitted

UsableConfiguration ==
  scrape.pc \in {"loaded", "loop"} =>
    /\ \A field \in ConfigFields(domain) :
         /\ scrape.config[field[1]] >= 1
         /\ scrape.config[field[1]] =
              IF scrape.env[field[1]].positive > 0
              THEN scrape.env[field[1]].positive
              ELSE field[3]
    /\ scrape.pc = "loop" => scrape.ticker = "ticking"

\* the FDB collector's loop runs on the default interval and with the
\* default entry cap, the environment holding -1s and 0 for them, and on a
\* port cap of 12 read from +12
DefaultsReplaceNonPositive ==
  /\ domain = "fdb"
  /\ scrape.pc = "loop"
  /\ scrape.env["refreshInterval"].value = <<45, 49, 115>>
  /\ scrape.env["maxEntries"].value = <<48>>
  /\ scrape.env["maxPorts"].value = <<43, 49, 50>>
  /\ scrape.config["refreshInterval"] = 60
  /\ scrape.config["maxEntries"] = 50000
  /\ scrape.config["maxPorts"] = 12

\* the Collect calls that have copied and not yet returned: they are sending
\* on the channel, or waiting for its consumer
Sending == {r \in Readers : pcR[r] \in {"emit", "sent"}}

\* C38: Collect holds the read lock only while it copies the cached records
\* and health fields and sends on the channel only after releasing it; a
\* Collect whose consumer has stopped reading never keeps refreshMetrics
\* from taking the write lock and committing, and what it goes on to emit is
\* the snapshot it copied, whatever is committed meanwhile
StalledScrapeStep ==
  /\ Sending \cap mu.readers = {}
  /\ Sending' \cap mu'.readers = {}
  /\ \A r \in mu.readers : pcR[r] \in {"reading", "copied"}
  /\ \A r \in Sending :
       pcR'[r] \in {"emit", "sent"} => rl'[r].view = rl[r].view
  /\ \A w \in Writers :
       ( /\ pcW[w] = "lockwait"
         /\ mu.writer = "none"
         /\ \A r \in Readers : pcR[r] \in {"idle", "emit", "sent"} ) =>
         ENABLED LockAcquire(w)

StalledScrape == [][StalledScrapeStep]_vars

\* a Collect still waits to send the snapshot it copied while a later
\* refresh cycle has committed another one
CommittedWhileStalled ==
  \E r \in Readers :
    /\ pcR[r] = "emit"
    /\ rl[r].view["lastSuccess"] = 1
    /\ cache["lastSuccess"] = 1
    /\ cache["lastRefreshTime"] > rl[r].view["lastRefreshTime"]
    /\ cache["cachedMetrics"] # rl[r].view["cachedMetrics"]
    /\ mu.writer = "none"

\* the sum of the values of the first n records that have description desc
RECURSIVE ValueSum(_, _)
ValueSum(desc, n) ==
  IF n = 0 THEN 0
  ELSE ValueSum(desc, n - 1)
         + (IF scrape.metrics[n].desc = desc THEN scrape.metrics[n].value ELSE 0)

\* C39: in every FDB snapshot the entries_by_type values sum to the
\* total-entries gauge; the emitted entries_by_vlan values and the emitted
\* entries_by_port values each sum to at most the total-entries gauge, and
\* to exactly that when no series of the kind was dropped by its cap; and
\* the unknown-VLAN gauge never exceeds the total-entries gauge
FdbCountConsistency ==
  (domain = "fdb" /\ scrape.pc = "done") =>
    LET n == Len(scrape.metrics)
        total == ValueSum("entries", n)
        vlanDropped == RecordCount("entries_by_vlan")
                         < Cardinality(DOMAIN scrape.entriesByVLAN)
        portDropped == RecordCount("entries_by_port")
                         < Cardinality(DOMAIN scrape.entriesByPort)
    IN /\ RecordCount("entries") = 1
       /\ RecordCount("entries_unknown_vlan") = 1
       /\ ValueSum("entries_by_type", n) = total
       /\ ValueSum("entries_by_vlan", n) <= total
       /\ ValueSum("entries_by_port", n) <= total
       /\ ~vlanDropped => ValueSum("entries_by_vlan", n) = total
       /\ ~portDropped => ValueSum("entries_by_port", n) = total
       /\ ValueSum("entries_unknown_vlan", n) <= total

\* a snapshot of two or more entries in which a VLAN series was dropped and
\* the port series are all there
VlanSumBelowTotal ==
  /\ domain = "fdb"
  /\ scrape.pc = "done"
  /\ ValueSum("entries", Len(scrape.metrics)) >= 2
  /\ ValueSum("entries_by_type", Len(scrape.metrics))
       = ValueSum("entries", Len(scrape.metrics))
  /\ RecordCount("entries_by_vlan") < Cardinality(DOMAIN scrape.entriesByVLAN)
  /\ RecordCount("entries_by_port") = Cardinality(DOMAIN scrape.entriesByPort)
  /\ ValueSum("entries_by_vlan", Len(scrape.metrics))
       < ValueSum("entries", Len(scrape.metrics))
  /\ ValueSum("entries_by_port", Len(scrape.metrics))
       = ValueSum("entries", Len(scrape.metrics))
====
